---- MODULE Spec2Model ----
(***************************************************************************)
(* Model of src/backend-python/algorithms/neighbor_joining.py: the         *)
(* Neighbor-Joining tree builder (class NeighborJoining, build_nj_tree).   *)
(*                                                                         *)
(* Numbers.  The code works in float64.  The model works in integers:      *)
(* the caller's cells are whole numbers, and a float64 value v is held as  *)
(* the integer v * Scale, Scale a power of two large enough that every     *)
(* halving the code performs is exact.  On such dyadic values float64      *)
(* addition, subtraction, halving and multiplication by a small integer    *)
(* are exact, so the integer matrix is the float matrix.  A branch length, *)
(* which the code divides by 2*(n-2), is held as the fraction [num, den],  *)
(* den > 0, of a Scale-d numerator; the rounding of that one division      *)
(* changes neither its sign nor whether it is zero.                        *)
(*                                                                         *)
(* Indices are 0-based as in the code: a matrix is a function              *)
(* [0..r-1 -> [0..c-1 -> Int]], a Python list is a function on 0..len-1.   *)
(***************************************************************************)
EXTENDS Integers, Sequences, FiniteSets, TLC

VARIABLES
    entry,            \* how the caller uses the module: "build" | "direct"
    arg_matrix,       \* the distance_matrix argument the caller passes
    arg_labels,       \* the labels argument the caller passes
    pc,               \* position of the caller / of run()
    err,              \* the exception the call in last_call raised, "none" if none
    last_call,        \* the public operation that ran last
    original_matrix,  \* self.original_matrix
    labels,           \* self.labels
    n_original,       \* self.n_original
    distance_matrix,  \* self.distance_matrix
    current_labels,   \* self.current_labels
    nodes,            \* self.nodes: id -> TreeNode
    node_keys,        \* insertion order of the keys of self.nodes
    next_node_id,     \* self.next_node_id
    iterations,       \* self.iterations
    total_operations, \* self.total_operations
    n,                \* run(): local n
    current_matrix,   \* run(): local current_matrix
    active_nodes,     \* run(): local active_nodes
    sel,              \* run(): locals (i, j) of the last iteration
    root,             \* the TreeNode run() returned, NoNode before
    result,           \* what the call in last_call returned, NoResult if nothing yet
    runs,             \* how many times run() was called on the instance
    other,            \* a second build_nj_tree call in progress, NoBuilder if none
    knn,              \* a find_k_nearest_neighbors call, NoCall if none
    branch_call       \* a calculate_branch_lengths call on float64 cells, NoCall if none

vars == <<entry, arg_matrix, arg_labels, pc, err, last_call, original_matrix,
          labels, n_original, distance_matrix, current_labels, nodes,
          node_keys, next_node_id, iterations, total_operations, n,
          current_matrix, active_nodes, sel, root, result, runs, other, knn,
          branch_call>>

inst_vars == <<original_matrix, labels, n_original, distance_matrix,
               current_labels, nodes, node_keys, next_node_id, iterations,
               total_operations>>

run_vars == <<n, current_matrix, active_nodes, sel, root>>

arg_vars == <<entry, arg_matrix, arg_labels>>

(***************************************************************************)
(* Bounds of the model and the input family.                               *)
(***************************************************************************)
MaxN == 5
MaxHeavy == 1
Lo == 1
Hi == 6
FarDelta == 3
DiagVal == 2
Big == 100000
MaxRuns == 2

\* 2^k
RECURSIVE Pow2(_)
Pow2(k) == IF k <= 0 THEN 1 ELSE 2 * Pow2(k - 1)

\* One halving for the symmetrisation, MaxN - 3 for the merges, one for the
\* three-point formula.
Scale == Pow2(MaxN - 1)

Abs(x) == IF x < 0 THEN -x ELSE x
Max0(x) == IF x < 0 THEN 0 ELSE x
Idx(k) == 0 .. (k - 1)

Names == <<"A", "B", "C", "D", "E", "F", "G", "H">>
LabelList(k) == [p \in Idx(k) |-> Names[p + 1]]

UpperPairs(k) == {pr \in Idx(k) \X Idx(k) : pr[1] < pr[2]}
HeavySets(k) == {S \in SUBSET UpperPairs(k) : Cardinality(S) <= MaxHeavy}

\* A symmetric k x k matrix with zero diagonal: Hi at the pairs of S, Lo elsewhere.
SymMatrix(k, S) ==
    [a \in Idx(k) |-> [b \in Idx(k) |->
        IF a = b THEN 0
        ELSE IF (<<a, b>> \in S \/ <<b, a>> \in S) THEN Hi ELSE Lo]]

\* The same matrix with one cell changed.
WithCell(m, a, b, x) == [m EXCEPT ![a] = [m[a] EXCEPT ![b] = x]]

\* What the caller may pass beside a clean matrix: a lower-triangle cell
\* FarDelta off its mirror (outside np.allclose's tolerance), a pair of large
\* mirror cells one apart (inside the tolerance), or a non-zero diagonal cell.
Perturbed(m, k) ==
    {m}
    \cup (IF k >= 2
          THEN {WithCell(m, 1, 0, m[0][1] + FarDelta),
                WithCell(WithCell(m, 0, 1, Big), 1, 0, Big + 1)}
          ELSE {})
    \cup {WithCell(m, 0, 0, DiagVal)}

\* test_tree_reconstruction's matrix, times 10 to make its cells whole.  The
\* merges, the counters and the signs of the branch lengths of a symmetric
\* input do not change when the input is scaled.
FixtureMatrix ==
    [a \in Idx(4) |-> [b \in Idx(4) |->
        <<<<0, 2, 4, 6>>, <<2, 0, 5, 7>>, <<4, 5, 0, 3>>, <<6, 7, 3, 0>>>>[a + 1][b + 1]]]

RectMatrix(r, c) == [a \in Idx(r) |-> [b \in Idx(c) |-> IF a = b THEN 0 ELSE Lo]]

SquareInputsOf(k) ==
    {[matrix |-> m, labels |-> LabelList(k)] :
        m \in UNION {Perturbed(SymMatrix(k, S), k) : S \in HeavySets(k)}}

\* Four taxa off the triangle inequality: 0, 1 and 3 are Hi apart from one
\* another while 2 is Lo away from each of them.
NonMetricMatrix == SymMatrix(4, {<<0, 1>>, <<0, 3>>, <<1, 3>>})

\* Five taxa, 1 with 2 and 3 with 4 Lo apart, every other pair Hi apart: the
\* first pair merged is (1, 2), which leaves taxon 0 in a slot below it.
TwoCherriesMatrix == SymMatrix(5, UpperPairs(5) \ {<<1, 2>>, <<3, 4>>})

SquareInputs ==
    UNION {SquareInputsOf(k) : k \in 1 .. MaxN}
    \cup {[matrix |-> FixtureMatrix, labels |-> LabelList(4)],
          [matrix |-> NonMetricMatrix, labels |-> LabelList(4)],
          [matrix |-> TwoCherriesMatrix, labels |-> LabelList(5)]}

\* Inputs build_nj_tree has to reject: rows # columns, or labels # rows.
BadShapeInputs ==
    {inp \in {[matrix |-> RectMatrix(r, c), labels |-> LabelList(l)] :
                 r \in 1 .. MaxN, c \in 1 .. MaxN, l \in 1 .. MaxN} :
        \/ Cardinality(DOMAIN inp.matrix) # Cardinality(DOMAIN inp.matrix[0])
        \/ Cardinality(DOMAIN inp.labels) # Cardinality(DOMAIN inp.matrix)}

Rows(m) == Cardinality(DOMAIN m)
Cols(m) == Cardinality(DOMAIN m[0])
Len0(l) == Cardinality(DOMAIN l)

(***************************************************************************)
(* TreeNode                                                                *)
(***************************************************************************)
Frac(num, den) == [num |-> num, den |-> den]
Zero == Frac(0, 1)

\* TreeNode(id, label, distance_to_parent = 0.0, children = None, is_leaf = True)
TreeNode(id, label, dist, children, is_leaf) ==
    [id |-> id, label |-> label, distance_to_parent |-> dist,
     children |-> children, is_leaf |-> is_leaf]

NoNode == TreeNode("", "", Zero, <<>>, FALSE)
NoMatrix == <<>>

(***************************************************************************)
(* numpy                                                                   *)
(***************************************************************************)
\* np.array(distance_matrix, dtype=np.float64)
ToFloat64(m) == [a \in DOMAIN m |-> [b \in DOMAIN m[a] |-> m[a][b] * Scale]]

\* 0.5 * x, x / 2
Half(x) == x \div 2

\* np.allclose's default rtol = 1e-05.  Its atol = 1e-08 cannot decide the
\* comparison of two values that are whole multiples of 1/Scale:
\* |x - y| <= atol + rtol*|y|  iff  |x - y| <= floor(|y| / 100000).
RtolInv == 100000
IsClose(x, y) == Abs(x - y) <= Abs(y) \div RtolInv

\* np.allclose(m, m.T)
AllCloseToTranspose(m) ==
    \A a \in DOMAIN m : \A b \in DOMAIN m : IsClose(m[a][b], m[b][a])

\* (m + m.T) / 2
SymmetrizeAverage(m) == [a \in DOMAIN m |-> [b \in DOMAIN m |-> Half(m[a][b] + m[b][a])]]

RECURSIVE SumTo(_, _)
SumTo(row, k) == IF k < 0 THEN 0 ELSE row[k] + SumTo(row, k - 1)

\* Mutant of RowSum: the row sums of the matrix the run started from, kept
\* from the first pass.
RowSum_Stale(m, i) == SumTo(distance_matrix[i], Cardinality(DOMAIN distance_matrix[i]) - 1)

\* np.sum(m[i, :]) and np.sum(m, axis=1)[i]
RowSum(m, i) == SumTo(m[i], Cardinality(DOMAIN m[i]) - 1)

(***************************************************************************)
(* NeighborJoining: the pure steps                                         *)
(***************************************************************************)
\* A Q cell: a finite value, or +infinity once fill_diagonal has run.
Fin(x) == [inf |-> FALSE, v |-> x]
Inf == [inf |-> TRUE, v |-> 0]
QLess(x, y) == ~x.inf /\ (y.inf \/ x.v < y.v)

\* q_value is computed for i < j from dist_matrix[i, j] and stored in both
\* q_matrix[i, j] and q_matrix[j, i]; the other cells keep zeros_like's 0.
calculate_q_matrix(dist_matrix, k) ==
    IF k <= 2
    THEN [a \in DOMAIN dist_matrix |-> [b \in DOMAIN dist_matrix[a] |-> Fin(dist_matrix[a][b])]]
    ELSE [a \in DOMAIN dist_matrix |-> [b \in DOMAIN dist_matrix[a] |->
            IF a # b /\ a < k /\ b < k
            THEN Fin((k - 2) * dist_matrix[IF a < b THEN a ELSE b][IF a < b THEN b ELSE a]
                     - RowSum(dist_matrix, a) - RowSum(dist_matrix, b))
            ELSE Fin(0)]]

\* Mutant of QOperations: 3 per cell of the k x k matrix.
QOperations_AllCells(k) == IF k <= 2 THEN 0 ELSE 3 * k * k

\* self.total_operations += 3, once per pass of the inner loop: once per pair
\* (i, j) with i in range(k), j in range(i + 1, k)
QOperations(k) == IF k <= 2 THEN 0 ELSE 3 * Cardinality(UpperPairs(k))

\* np.fill_diagonal(q_matrix, np.inf)
FillDiagonalInf(q) == [a \in DOMAIN q |-> [b \in DOMAIN q[a] |-> IF a = b THEN Inf ELSE q[a][b]]]

\* The flat (row-major) indices of a matrix and the cell at a flat index.
FlatCells(q) == Idx(Cardinality(DOMAIN q) * Cardinality(DOMAIN q[0]))
FlatAt(q, f) == q[f \div Cardinality(DOMAIN q[0])][f % Cardinality(DOMAIN q[0])]

\* Mutant of ArgMin: the last flat index holding the minimum.
ArgMin_Last(q) ==
    CHOOSE f \in FlatCells(q) :
        /\ \A g \in FlatCells(q) : ~QLess(FlatAt(q, g), FlatAt(q, f))
        /\ \A g \in FlatCells(q) : g > f => QLess(FlatAt(q, f), FlatAt(q, g))

\* np.argmin over the flattened (row-major) matrix: the first flat index
\* holding the minimum.
ArgMin(q) ==
    CHOOSE f \in FlatCells(q) :
        /\ \A g \in FlatCells(q) : ~QLess(FlatAt(q, g), FlatAt(q, f))
        /\ \A g \in 0 .. (f - 1) : QLess(FlatAt(q, f), FlatAt(q, g))

\* The one element of a one-element set.
Only(S) == CHOOSE x \in S : TRUE

\* divmod(min_idx, n), then i < j.  The filled matrix and the flat index are
\* each computed once.
find_minimum_q(q_matrix, k) ==
    Only({IF min_idx \div k > min_idx % k
          THEN <<min_idx % k, min_idx \div k>>
          ELSE <<min_idx \div k, min_idx % k>> :
             min_idx \in {ArgMin(q) : q \in {FillDiagonalInf(q_matrix)}}})

\* Stands for +infinity in a cell of a distance matrix: above every finite
\* cell the inputs can lead to.
PosInf == 2 * Big * Scale * MaxN

\* Mutant of QMatrixObject: calculate_q_matrix always hands back its argument.
QMatrixObject_Alias(k) == "dist_matrix"

\* The array object calculate_q_matrix returns: for n <= 2 dist_matrix itself
\* (line 89), otherwise the new array of np.zeros_like (line 95).
QMatrixObject(k) == IF k <= 2 THEN "dist_matrix" ELSE "q_matrix"

\* dist_matrix once calculate_q_matrix and find_minimum_q have run on it:
\* np.fill_diagonal writes into the object it is given, in place.
AfterFindMinimum(dist_matrix, k) ==
    IF QMatrixObject(k) = "dist_matrix"
    THEN [a \in DOMAIN dist_matrix |-> [b \in DOMAIN dist_matrix[a] |->
            IF a = b THEN PosInf ELSE dist_matrix[a][b]]]
    ELSE dist_matrix

\* The value of v_i before max(0.0, .), as a fraction over 2*(k-2).
RawBranchI(dist_matrix, i, j, k) ==
    Frac((k - 2) * dist_matrix[i][j] + (RowSum(dist_matrix, i) - RowSum(dist_matrix, j)),
         2 * (k - 2))

\* Mutant of RawBranchJ: v_j is taken from the clamped v_i.
RawBranchJ_FromClamped(dist_matrix, i, j, k) ==
    Frac(2 * (k - 2) * dist_matrix[i][j] - Max0(RawBranchI(dist_matrix, i, j, k).num),
         2 * (k - 2))

\* The value of v_j = d_ij - v_i before max(0.0, .), v_i not yet clamped.
RawBranchJ(dist_matrix, i, j, k) ==
    Frac(2 * (k - 2) * dist_matrix[i][j] - RawBranchI(dist_matrix, i, j, k).num,
         2 * (k - 2))

\* Mutant of ClampZero: the value is passed on as computed.
ClampZero_NoClamp(fr) == fr

\* max(0.0, v)
ClampZero(fr) == Frac(Max0(fr.num), fr.den)

calculate_branch_lengths(dist_matrix, i, j, k) ==
    IF k <= 2
    THEN <<Frac(dist_matrix[i][j], 2), Frac(dist_matrix[i][j], 2)>>
    ELSE <<ClampZero(RawBranchI(dist_matrix, i, j, k)),
           ClampZero(RawBranchJ(dist_matrix, i, j, k))>>

\* old_to_new inverted: the old index that lands on new index a when j goes.
OldIndex(a, j) == IF a < j THEN a ELSE a + 1

\* Mutant of update_distance_matrix: a surviving distance is read at the new
\* indices, not at the old ones.
update_distance_matrix_NoShift(dist_matrix, i, j, k) ==
    [a \in Idx(k - 1) |-> [b \in Idx(k - 1) |->
        LET old_i == OldIndex(IF a < b THEN a ELSE b, j)
            old_j == OldIndex(IF a < b THEN b ELSE a, j)
        IN  IF a = b THEN 0
            ELSE IF old_i = i
                 THEN Half(dist_matrix[i][old_j] + dist_matrix[j][old_j] - dist_matrix[i][j])
                 ELSE dist_matrix[IF a < b THEN a ELSE b][IF a < b THEN b ELSE a]]]

update_distance_matrix(dist_matrix, i, j, k) ==
    [a \in Idx(k - 1) |-> [b \in Idx(k - 1) |->
        LET old_i == OldIndex(IF a < b THEN a ELSE b, j)
            old_j == OldIndex(IF a < b THEN b ELSE a, j)
        IN  IF a = b THEN 0
            ELSE IF old_i = i
                 THEN Half(dist_matrix[i][old_j] + dist_matrix[j][old_j] - dist_matrix[i][j])
                 ELSE dist_matrix[old_i][old_j]]]

(***************************************************************************)
(* Serialisation                                                           *)
(***************************************************************************)
\* Python's f"{x:.6f}" of a fraction of Scale-d numerator: the integer part and
\* the six decimals, rounded half to even (the float is exact at a tie).
Format6(fr) ==
    LET d == fr.den * Scale
        a == Abs(fr.num)
        whole == a \div d
        r2 == 2 * (a % d) * 1000000
        down == r2 \div (2 * d)
        rest == r2 % (2 * d)
        micro == IF rest > d \/ (rest = d /\ down % 2 = 1) THEN down + 1 ELSE down
        w == IF micro = 1000000 THEN whole + 1 ELSE whole
        m == IF micro = 1000000 THEN 0 ELSE micro
        pad == IF m < 10 THEN "00000" ELSE IF m < 100 THEN "0000"
               ELSE IF m < 1000 THEN "000" ELSE IF m < 10000 THEN "00"
               ELSE IF m < 100000 THEN "0" ELSE ""
    IN  (IF fr.num < 0 THEN "-" ELSE "") \o ToString(w) \o "." \o pad \o ToString(m)

RECURSIVE JoinComma(_, _)
JoinComma(strs, k) ==
    IF k = 0 THEN ""
    ELSE IF k = 1 THEN strs[1]
    ELSE JoinComma(strs, k - 1) \o "," \o strs[k]

\* TreeNode.to_newick; a child is held by its id and looked up in the heap of
\* node objects `ns`.
RECURSIVE to_newick(_, _)
to_newick(node, ns) ==
    IF node.is_leaf
    THEN node.label \o ":" \o Format6(node.distance_to_parent)
    ELSE LET parts == [c \in DOMAIN node.children |-> to_newick(ns[node.children[c]], ns)]
         IN  "(" \o JoinComma(parts, Len(node.children)) \o "):"
                 \o Format6(node.distance_to_parent)

\* TreeNode.to_dict
RECURSIVE to_dict(_, _)
to_dict(node, ns) ==
    LET base == [id |-> node.id, label |-> node.label,
                 distance |-> node.distance_to_parent, is_leaf |-> node.is_leaf]
    IN  IF node.children # <<>>
        THEN base @@ [children |-> [c \in DOMAIN node.children |->
                                        to_dict(ns[node.children[c]], ns)]]
        ELSE base

\* NeighborJoining.get_newick, once "root" is a key of self.nodes
NewickOf(ns) ==
    LET r == ns["root"]
        parts == [c \in DOMAIN r.children |-> to_newick(ns[r.children[c]], ns)]
    IN  "(" \o JoinComma(parts, Len(r.children)) \o ");"

\* NeighborJoining.get_statistics
StatisticsOf(n_orig, iters, ops) ==
    [algorithm |-> "neighbor_joining", n_taxa |-> n_orig, iterations |-> iters,
     total_operations |-> ops, complexity |-> "O(n3) where n=" \o ToString(n_orig)]

NoResult == [kind |-> "none"]

\* No second call.
NoBuilder == [pc |-> "absent"]

\* No find_k_nearest_neighbors call.
NoCall == [pc |-> "absent"]

(***************************************************************************)
(* The state machine                                                       *)
(***************************************************************************)
Init ==
    /\ entry \in {"build", "direct"}
    /\ \E inp \in (IF entry = "build" THEN SquareInputs \cup BadShapeInputs
                                      ELSE SquareInputs) :
            /\ arg_matrix = inp.matrix
            /\ arg_labels = inp.labels
    /\ pc = "start"
    /\ err = "none"
    /\ last_call = "none"
    /\ original_matrix = NoMatrix
    /\ labels = <<>>
    /\ n_original = 0
    /\ distance_matrix = NoMatrix
    /\ current_labels = <<>>
    /\ nodes = <<>>
    /\ node_keys = <<>>
    /\ next_node_id = 0
    /\ iterations = 0
    /\ total_operations = 0
    /\ n = 0
    /\ current_matrix = NoMatrix
    /\ active_nodes = <<>>
    /\ sel = <<0, 0>>
    /\ root = NoNode
    /\ result = NoResult
    /\ runs = 0
    /\ other = NoBuilder
    /\ knn = NoCall
    /\ branch_call = NoCall

\* self.nodes[key] = node: a new key goes to the end of the dict's key order.
DictKeysAfterSet(keys, key) ==
    IF \E p \in DOMAIN keys : keys[p] = key
    THEN keys
    ELSE [p \in Idx(Cardinality(DOMAIN keys) + 1) |->
            IF p < Cardinality(DOMAIN keys) THEN keys[p] ELSE key]

DictAfterSet(d, key, node) ==
    IF key \in DOMAIN d THEN [d EXCEPT ![key] = node] ELSE d @@ (key :> node)

\* Mutant of LeafNodes: the leaf is labelled with its id, not with its label.
LeafNodes_LabelIsId(lbls) ==
    [id \in {ToString(p) : p \in DOMAIN lbls} |-> TreeNode(id, id, Zero, <<>>, TRUE)]

\* NeighborJoining.__init__(distance_matrix, labels), the matrix already float64
LeafNodes(lbls) ==
    [id \in {ToString(p) : p \in DOMAIN lbls} |->
        TreeNode(id, lbls[CHOOSE p \in DOMAIN lbls : ToString(p) = id], Zero, <<>>, TRUE)]

NJ_init(m, lbls) ==
    /\ original_matrix' = m
    /\ labels' = lbls
    /\ n_original' = Cardinality(DOMAIN lbls)
    /\ distance_matrix' = m
    /\ current_labels' = lbls
    /\ nodes' = LeafNodes(lbls)
    /\ node_keys' = [p \in DOMAIN lbls |-> ToString(p)]
    /\ next_node_id' = Cardinality(DOMAIN lbls)
    /\ iterations' = 0
    /\ total_operations' = 0

\* Mutant of LabelsMatch: only a label list that is too long is refused.
LabelsMatch_OnlyTooMany(m, lbls) == Len0(lbls) <= Rows(m)

\* build_nj_tree's two validations
IsSquare(m) == Rows(m) = Cols(m)
LabelsMatch(m, lbls) == Len0(lbls) = Rows(m)

\* build_nj_tree, lines 335-338
CheckSymmetry(m) == IF ~AllCloseToTranspose(m) THEN SymmetrizeAverage(m) ELSE m

\* build_nj_tree up to and including NeighborJoining(dist_array, labels)
BuildValidate ==
    /\ entry = "build"
    /\ pc = "start"
    /\ last_call' = "build_nj_tree"
    /\ LET dist_array == ToFloat64(arg_matrix)
       IN  IF ~IsSquare(dist_array)
           THEN /\ pc' = "failed"
                /\ err' = "Distance matrix must be square"
                /\ UNCHANGED inst_vars
           ELSE IF ~LabelsMatch(dist_array, arg_labels)
           THEN /\ pc' = "failed"
                /\ err' = "Number of labels must match matrix dimension"
                /\ UNCHANGED inst_vars
           ELSE /\ pc' = "constructed"
                /\ err' = "none"
                /\ NJ_init(CheckSymmetry(dist_array), arg_labels)
    /\ UNCHANGED <<arg_vars, other, knn, branch_call, run_vars, result, runs>>

\* The caller constructs NeighborJoining(distance_matrix, labels) itself.
Construct ==
    /\ entry = "direct"
    /\ pc = "start"
    /\ last_call' = "__init__"
    /\ pc' = "constructed"
    /\ err' = "none"
    /\ NJ_init(ToFloat64(arg_matrix), arg_labels)
    /\ UNCHANGED <<arg_vars, other, knn, branch_call, run_vars, result, runs>>

\* run(), lines 200-204: up to the first test of the loop condition.
\* build_nj_tree calls it once on the instance it made; a caller holding an
\* instance may call it again after it returned or raised.
RunBegin ==
    /\ \/ pc = "constructed"
       \/ entry = "direct" /\ pc \in {"resolved", "failed"}
    /\ runs < MaxRuns
    /\ runs' = runs + 1
    /\ last_call' = "run"
    /\ n' = n_original
    /\ current_matrix' = distance_matrix
    /\ active_nodes' = node_keys
    /\ pc' = "loop"
    /\ err' = "none"
    /\ result' = NoResult
    /\ UNCHANGED <<arg_vars, other, knn, branch_call, inst_vars, sel, root>>

\* Mutant of LoopContinues: the loop goes on while n >= 3.
LoopContinues_OffByOne(k) == k >= 3

\* while n > 3
LoopContinues(k) == k > 3

\* Mutant of ActiveAfterMerge: slot i is replaced, slot j is not deleted.
ActiveAfterMerge_NoDelete(active, i, j, new_node_id) ==
    [p \in DOMAIN active |-> IF p = i THEN new_node_id ELSE active[p]]

\* Mutant of ActiveAfterMerge: the new node takes the place of j and slot i
\* is the one deleted.
ActiveAfterMerge_DropI(active, i, j, new_node_id) ==
    [p \in Idx(Cardinality(DOMAIN active) - 1) |->
        LET old == IF p < i THEN p ELSE p + 1
        IN  IF old = j THEN new_node_id ELSE active[old]]

\* active_nodes[i] = new_node_id; del active_nodes[j]
ActiveAfterMerge(active, i, j, new_node_id) ==
    [p \in Idx(Cardinality(DOMAIN active) - 1) |->
        LET old == IF p < j THEN p ELSE p + 1
        IN  IF old = i THEN new_node_id ELSE active[old]]

\* Mutant of NodesAfterMerge: children=[node_i, node_i].
NodesAfterMerge_SameChild(ns, id_i, id_j, v, new_node_id) ==
    DictAfterSet([ns EXCEPT ![id_i].distance_to_parent = v[1],
                            ![id_j].distance_to_parent = v[2]],
                 new_node_id,
                 TreeNode(new_node_id, "Node_" \o new_node_id, Zero, <<id_i, id_i>>, FALSE))

\* Mutant of NodesAfterMerge: node_j is also appended to node_i's children.
NodesAfterMerge_Adopt(ns, id_i, id_j, v, new_node_id) ==
    DictAfterSet([ns EXCEPT ![id_i].distance_to_parent = v[1],
                            ![id_i].children = Append(ns[id_i].children, id_j),
                            ![id_j].distance_to_parent = v[2]],
                 new_node_id,
                 TreeNode(new_node_id, "Node_" \o new_node_id, Zero, <<id_i, id_j>>, FALSE))

\* node_i.distance_to_parent = v_i; node_j.distance_to_parent = v_j;
\* self.nodes[new_node_id] = TreeNode(..., children=[node_i, node_j])
NodesAfterMerge(ns, id_i, id_j, v, new_node_id) ==
    DictAfterSet([ns EXCEPT ![id_i].distance_to_parent = v[1],
                            ![id_j].distance_to_parent = v[2]],
                 new_node_id,
                 TreeNode(new_node_id, "Node_" \o new_node_id, Zero, <<id_i, id_j>>, FALSE))

\* Mutant of NewNodeId: the counter is advanced before it is read.
NewNodeId_Skip(next) == ToString(next + 1)

\* new_node_id = str(self.next_node_id)
NewNodeId(next) == ToString(next)

\* Mutant of OpsAfter: the operation counter is one counter of the class.
OpsAfter_Shared(ops, k) == total_operations + QOperations(k)

\* self.total_operations after calculate_q_matrix(current_matrix, k)
OpsAfter(ops, k) == ops + QOperations(k)

\* One pass of the body of `while n > 3`, lines 206-245.  ij is (i, j), v is
\* (v_i, v_j); each is computed once and then used, as in the code.  `working`
\* is current_matrix as steps 3 and 5 find it after steps 1 and 2.
Iterate ==
    /\ pc = "loop"
    /\ LoopContinues(n)
    /\ \E q_matrix \in {calculate_q_matrix(current_matrix, n)} :
       \E ij \in {find_minimum_q(q_matrix, n)} :
       \E working \in {AfterFindMinimum(current_matrix, n)} :
       \E v \in {calculate_branch_lengths(working, ij[1], ij[2], n)} :
       \E new_node_id \in {NewNodeId(next_node_id)} :
           /\ iterations' = iterations + 1
           /\ total_operations' = OpsAfter(total_operations, n)
           /\ next_node_id' = next_node_id + 1
           /\ nodes' = NodesAfterMerge(nodes, active_nodes[ij[1]], active_nodes[ij[2]],
                                       v, new_node_id)
           /\ node_keys' = DictKeysAfterSet(node_keys, new_node_id)
           /\ current_matrix' = update_distance_matrix(working, ij[1], ij[2], n)
           /\ active_nodes' = ActiveAfterMerge(active_nodes, ij[1], ij[2], new_node_id)
           /\ sel' = ij
    /\ n' = n - 1
    /\ UNCHANGED <<arg_vars, other, knn, branch_call, pc, err, last_call, original_matrix, labels, n_original,
                   distance_matrix, current_labels, root, result, runs>>

\* Mutant of ThreePoint: the formulas of the second and the third node are
\* exchanged.
ThreePoint_Swapped(dist_matrix) ==
    LET d_01 == dist_matrix[0][1]
        d_02 == dist_matrix[0][2]
        d_12 == dist_matrix[1][2]
    IN  <<ClampZero(Frac(d_01 + d_02 - d_12, 2)),
          ClampZero(Frac(d_02 + d_12 - d_01, 2)),
          ClampZero(Frac(d_01 + d_12 - d_02, 2))>>

\* The three-point formula of _connect_final_nodes, lines 271-277
ThreePoint(dist_matrix) ==
    LET d_01 == dist_matrix[0][1]
        d_02 == dist_matrix[0][2]
        d_12 == dist_matrix[1][2]
    IN  <<ClampZero(Frac(d_01 + d_02 - d_12, 2)),
          ClampZero(Frac(d_01 + d_12 - d_02, 2)),
          ClampZero(Frac(d_02 + d_12 - d_01, 2))>>

\* Mutant of RootChildren: the third remaining node is left out.
RootChildren_TwoOnly(active) == <<active[0], active[1]>>

\* Mutant of RootChildren: the second remaining node is listed twice.
RootChildren_Repeat(active) == <<active[0], active[1], active[1]>>

\* nodes = [self.nodes[node_id] for node_id in active_nodes]; children=nodes
RootChildren(active) == <<active[0], active[1], active[2]>>

\* The loop condition fails: _connect_final_nodes, then run() returns the root.
ConnectFinal ==
    /\ pc = "loop"
    /\ ~LoopContinues(n)
    /\ IF Cardinality(DOMAIN active_nodes) # 3
       THEN /\ pc' = "failed"
            /\ err' = "Expected 3 nodes"
            /\ UNCHANGED <<nodes, root>>
       ELSE LET len == ThreePoint(current_matrix)
            IN  /\ nodes' = [nodes EXCEPT ![active_nodes[0]].distance_to_parent = len[1],
                                          ![active_nodes[1]].distance_to_parent = len[2],
                                          ![active_nodes[2]].distance_to_parent = len[3]]
                /\ root' = TreeNode("root", "root", Zero, RootChildren(active_nodes), FALSE)
                /\ pc' = "resolved"
                /\ err' = "none"
    /\ UNCHANGED <<arg_vars, other, knn, branch_call, last_call, original_matrix, labels, n_original,
                   distance_matrix, current_labels, node_keys, next_node_id, iterations,
                   total_operations, n, current_matrix, active_nodes, sel, result, runs>>

\* build_nj_tree, lines 344-351: store the root and serialise
BuildFinish ==
    /\ entry = "build"
    /\ pc = "resolved"
    /\ nodes' = DictAfterSet(nodes, "root", root)
    /\ node_keys' = DictKeysAfterSet(node_keys, "root")
    /\ result' = [kind |-> "tree",
                  tree |-> to_dict(root, nodes'),
                  newick |-> NewickOf(nodes'),
                  statistics |-> StatisticsOf(n_original, iterations, total_operations)]
    /\ pc' = "done"
    /\ UNCHANGED <<arg_vars, other, knn, branch_call, err, last_call, original_matrix, labels, n_original,
                   distance_matrix, current_labels, next_node_id, iterations,
                   total_operations, run_vars, runs>>

\* Mutant of GetNewick: a tree that is not there is rendered as the empty tree.
GetNewick_EmptyTree ==
    /\ entry = "direct"
    /\ pc \in {"constructed", "resolved", "failed"}
    /\ last_call' = "get_newick"
    /\ err' = "none"
    /\ result' = [kind |-> "newick",
                  newick |-> IF "root" \in DOMAIN nodes THEN NewickOf(nodes) ELSE "();"]
    /\ UNCHANGED <<arg_vars, other, knn, branch_call, pc, inst_vars, run_vars, runs>>

\* Between its own calls the caller of a NeighborJoining instance may call
\* get_newick() ...
GetNewick ==
    /\ entry = "direct"
    /\ pc \in {"constructed", "resolved", "failed"}
    /\ last_call' = "get_newick"
    /\ IF "root" \notin DOMAIN nodes
       THEN /\ err' = "Tree not yet constructed"
            /\ result' = NoResult
       ELSE /\ err' = "none"
            /\ result' = [kind |-> "newick", newick |-> NewickOf(nodes)]
    /\ UNCHANGED <<arg_vars, other, knn, branch_call, pc, inst_vars, run_vars, runs>>

\* Mutant of GetStatistics: reading the statistics counts as an operation.
GetStatistics_Counting ==
    /\ entry = "direct"
    /\ pc \in {"constructed", "resolved", "failed"}
    /\ last_call' = "get_statistics"
    /\ err' = "none"
    /\ total_operations' = total_operations + 1
    /\ result' = [kind |-> "statistics",
                  statistics |-> StatisticsOf(n_original, iterations, total_operations')]
    /\ UNCHANGED <<arg_vars, other, knn, branch_call, pc, original_matrix, labels, n_original, distance_matrix,
                   current_labels, nodes, node_keys, next_node_id, iterations,
                   run_vars, runs>>

\* ... and get_statistics().
GetStatistics ==
    /\ entry = "direct"
    /\ pc \in {"constructed", "resolved", "failed"}
    /\ last_call' = "get_statistics"
    /\ err' = "none"
    /\ result' = [kind |-> "statistics",
                  statistics |-> StatisticsOf(n_original, iterations, total_operations)]
    /\ UNCHANGED <<arg_vars, other, knn, branch_call, pc, inst_vars, run_vars, runs>>

\* The caller stores the root run() returned under the key "root", the step
\* build_nj_tree takes at line 345 to make get_newick work.
StoreRoot ==
    /\ entry = "direct"
    /\ pc = "resolved"
    /\ "root" \notin DOMAIN nodes
    /\ last_call' = "store_root"
    /\ nodes' = DictAfterSet(nodes, "root", root)
    /\ node_keys' = DictKeysAfterSet(node_keys, "root")
    /\ err' = "none"
    /\ result' = NoResult
    /\ UNCHANGED <<arg_vars, other, knn, branch_call, pc, original_matrix, labels, n_original, distance_matrix,
                   current_labels, next_node_id, iterations, total_operations,
                   run_vars, runs>>

\* root.to_newick() on the TreeNode run() returned
ToNewick ==
    /\ entry = "direct"
    /\ pc = "resolved"
    /\ last_call' = "to_newick"
    /\ err' = "none"
    /\ result' = [kind |-> "newick", newick |-> to_newick(root, nodes)]
    /\ UNCHANGED <<arg_vars, other, knn, branch_call, pc, inst_vars, run_vars, runs>>

\* root.to_dict() on the TreeNode run() returned
ToDict ==
    /\ entry = "direct"
    /\ pc = "resolved"
    /\ last_call' = "to_dict"
    /\ err' = "none"
    /\ result' = [kind |-> "dict", tree |-> to_dict(root, nodes)]
    /\ UNCHANGED <<arg_vars, other, knn, branch_call, pc, inst_vars, run_vars, runs>>

Next ==
    \/ BuildValidate
    \/ Construct
    \/ RunBegin
    \/ Iterate
    \/ ConnectFinal
    \/ BuildFinish
    \/ StoreRoot
    \/ GetNewick
    \/ GetStatistics
    \/ ToNewick
    \/ ToDict

Spec == Init /\ [][Next]_vars

\* The loop of run() and the star resolution go on once started: the code is
\* synchronous, with no suspension point.
RunStep == Iterate \/ ConnectFinal
FairSpec == Spec /\ WF_vars(RunStep)

(***************************************************************************)
(* Two build_nj_tree calls in progress at once.  The first is the one of   *)
(* the variables above; the second is held whole in `other`, a record of   *)
(* its arguments, its instance fields and the locals of its run(), and     *)
(* takes the same steps.                                                   *)
(***************************************************************************)
StartOf(inp) ==
    [pc |-> "start", arg_matrix |-> inp.matrix, arg_labels |-> inp.labels, err |-> "none",
     n_original |-> 0, distance_matrix |-> NoMatrix, nodes |-> <<>>, node_keys |-> <<>>,
     next_node_id |-> 0, iterations |-> 0, total_operations |-> 0, n |-> 0,
     current_matrix |-> NoMatrix, active_nodes |-> <<>>, root |-> NoNode,
     result |-> NoResult]

\* build_nj_tree up to and including NeighborJoining(dist_array, labels)
ValidateOf(b) ==
    LET dist_array == ToFloat64(b.arg_matrix)
    IN  IF ~IsSquare(dist_array)
        THEN [b EXCEPT !.pc = "failed", !.err = "Distance matrix must be square"]
        ELSE IF ~LabelsMatch(dist_array, b.arg_labels)
        THEN [b EXCEPT !.pc = "failed",
                       !.err = "Number of labels must match matrix dimension"]
        ELSE [b EXCEPT !.pc = "constructed",
                       !.n_original = Cardinality(DOMAIN b.arg_labels),
                       !.distance_matrix = CheckSymmetry(dist_array),
                       !.nodes = LeafNodes(b.arg_labels),
                       !.node_keys = [p \in DOMAIN b.arg_labels |-> ToString(p)],
                       !.next_node_id = Cardinality(DOMAIN b.arg_labels)]

\* run(), lines 200-204
RunBeginOf(b) ==
    [b EXCEPT !.pc = "loop", !.n = b.n_original, !.current_matrix = b.distance_matrix,
              !.active_nodes = b.node_keys]

\* One pass of the loop body with (i, j) = ij and (v_i, v_j) = v already computed.
MergeOf(b, ij, v) ==
    [b EXCEPT !.iterations = b.iterations + 1,
              !.total_operations = OpsAfter(b.total_operations, b.n),
              !.next_node_id = b.next_node_id + 1,
              !.nodes = NodesAfterMerge(b.nodes, b.active_nodes[ij[1]], b.active_nodes[ij[2]],
                                        v, NewNodeId(b.next_node_id)),
              !.node_keys = DictKeysAfterSet(b.node_keys, NewNodeId(b.next_node_id)),
              !.current_matrix = update_distance_matrix(AfterFindMinimum(b.current_matrix, b.n),
                                                        ij[1], ij[2], b.n),
              !.active_nodes = ActiveAfterMerge(b.active_nodes, ij[1], ij[2],
                                                NewNodeId(b.next_node_id)),
              !.n = b.n - 1]

\* One pass of the body of `while n > 3`, lines 206-245
IterateOf(b) ==
    Only({MergeOf(b, ij, v) :
            <<ij, v>> \in {<<pr, calculate_branch_lengths(AfterFindMinimum(b.current_matrix, b.n),
                                                          pr[1], pr[2], b.n)>> :
                pr \in {find_minimum_q(calculate_q_matrix(b.current_matrix, b.n), b.n)}}})

\* _connect_final_nodes, then run() returns the root
ConnectFinalOf(b) ==
    IF Cardinality(DOMAIN b.active_nodes) # 3
    THEN [b EXCEPT !.pc = "failed", !.err = "Expected 3 nodes"]
    ELSE Only({[b EXCEPT !.pc = "resolved",
                         !.nodes = [b.nodes EXCEPT
                                      ![b.active_nodes[0]].distance_to_parent = len[1],
                                      ![b.active_nodes[1]].distance_to_parent = len[2],
                                      ![b.active_nodes[2]].distance_to_parent = len[3]],
                         !.root = TreeNode("root", "root", Zero,
                                           RootChildren(b.active_nodes), FALSE)] :
                  len \in {ThreePoint(b.current_matrix)}})

\* build_nj_tree, lines 344-351
FinishOf(b) ==
    Only({[b EXCEPT !.pc = "done",
                    !.nodes = ns,
                    !.node_keys = DictKeysAfterSet(b.node_keys, "root"),
                    !.result = [kind |-> "tree",
                                tree |-> to_dict(b.root, ns),
                                newick |-> NewickOf(ns),
                                statistics |-> StatisticsOf(b.n_original, b.iterations,
                                                            b.total_operations)]] :
            ns \in {DictAfterSet(b.nodes, "root", b.root)}})

\* The next step of a call that has not ended.
StepOf(b) ==
    IF b.pc = "start" THEN ValidateOf(b)
    ELSE IF b.pc = "constructed" THEN RunBeginOf(b)
    ELSE IF b.pc = "loop" /\ LoopContinues(b.n) THEN IterateOf(b)
    ELSE IF b.pc = "loop" THEN ConnectFinalOf(b)
    ELSE FinishOf(b)

Ended(b) == b.pc \in {"done", "failed"}

\* The call run from its start to its end with nothing else going on.
RECURSIVE RunAlone(_)
RunAlone(b) == IF Ended(b) THEN b ELSE Only({RunAlone(x) : x \in {StepOf(b)}})

\* The first call read as such a record.
Self ==
    [pc |-> pc, arg_matrix |-> arg_matrix, arg_labels |-> arg_labels, err |-> err,
     n_original |-> n_original, distance_matrix |-> distance_matrix, nodes |-> nodes,
     node_keys |-> node_keys, next_node_id |-> next_node_id, iterations |-> iterations,
     total_operations |-> total_operations, n |-> n, current_matrix |-> current_matrix,
     active_nodes |-> active_nodes, root |-> root, result |-> result]

\* The inputs of the two calls: per size two clean matrices, and the fixture.
PairInputs ==
    {[matrix |-> SymMatrix(k, S), labels |-> LabelList(k)] :
        k \in 3 .. MaxN, S \in {{<<0, 1>>}, {<<0, 2>>, <<1, 2>>}}}
    \cup {[matrix |-> FixtureMatrix, labels |-> LabelList(4)]}

PairInit ==
    /\ entry = "build"
    /\ \E inp \in PairInputs : arg_matrix = inp.matrix /\ arg_labels = inp.labels
    /\ \E inp \in PairInputs : other = StartOf(inp)
    /\ pc = "start"
    /\ err = "none"
    /\ last_call = "none"
    /\ original_matrix = NoMatrix
    /\ labels = <<>>
    /\ n_original = 0
    /\ distance_matrix = NoMatrix
    /\ current_labels = <<>>
    /\ nodes = <<>>
    /\ node_keys = <<>>
    /\ next_node_id = 0
    /\ iterations = 0
    /\ total_operations = 0
    /\ n = 0
    /\ current_matrix = NoMatrix
    /\ active_nodes = <<>>
    /\ sel = <<0, 0>>
    /\ root = NoNode
    /\ result = NoResult
    /\ runs = 0
    /\ knn = NoCall
    /\ branch_call = NoCall

self_vars == <<entry, arg_matrix, arg_labels, pc, err, last_call, original_matrix,
               labels, n_original, distance_matrix, current_labels, nodes,
               node_keys, next_node_id, iterations, total_operations, n,
               current_matrix, active_nodes, sel, root, result, runs>>

OtherValidate ==
    /\ other.pc = "start"
    /\ other' = ValidateOf(other)
    /\ UNCHANGED <<self_vars, knn, branch_call>>

OtherRunBegin ==
    /\ other.pc = "constructed"
    /\ other' = RunBeginOf(other)
    /\ UNCHANGED <<self_vars, knn, branch_call>>

OtherIterate ==
    /\ other.pc = "loop"
    /\ LoopContinues(other.n)
    /\ other' = IterateOf(other)
    /\ UNCHANGED <<self_vars, knn, branch_call>>

OtherConnectFinal ==
    /\ other.pc = "loop"
    /\ ~LoopContinues(other.n)
    /\ other' = ConnectFinalOf(other)
    /\ UNCHANGED <<self_vars, knn, branch_call>>

OtherFinish ==
    /\ other.pc = "resolved"
    /\ other' = FinishOf(other)
    /\ UNCHANGED <<self_vars, knn, branch_call>>

PairNext ==
    \/ BuildValidate
    \/ RunBegin
    \/ Iterate
    \/ ConnectFinal
    \/ BuildFinish
    \/ OtherValidate
    \/ OtherRunBegin
    \/ OtherIterate
    \/ OtherConnectFinal
    \/ OtherFinish

PairSpec == PairInit /\ [][PairNext]_vars

(***************************************************************************)
(* Reading the tree a run returned                                         *)
(***************************************************************************)
Returned == pc \in {"resolved", "done"}

\* The node objects by id, the returned root among them.
TreeHeap == IF "root" \in DOMAIN nodes THEN nodes ELSE nodes @@ ("root" :> root)

RECURSIVE ConcatAll(_, _)
ConcatAll(seqs, k) == IF k = 0 THEN <<>> ELSE ConcatAll(seqs, k - 1) \o seqs[k]

\* The ids met walking the tree below `id` in preorder, one entry per visit.
RECURSIVE Walk(_, _)
Walk(id, heap) ==
    <<id>> \o ConcatAll([c \in DOMAIN heap[id].children |-> Walk(heap[id].children[c], heap)],
                        Len(heap[id].children))

Visits == Walk("root", TreeHeap)
LeafVisits == SelectSeq(Visits, LAMBDA id : TreeHeap[id].is_leaf)
InternalVisits == SelectSeq(Visits, LAMBDA id : ~TreeHeap[id].is_leaf)
MergeVisits == SelectSeq(InternalVisits, LAMBDA id : id # "root")
Occurrences(seq, x) == Cardinality({p \in DOMAIN seq : seq[p] = x})

IterateStep == pc = "loop" /\ pc' = "loop" /\ iterations' = iterations + 1
ResolveStep == pc = "loop" /\ pc' = "resolved"

(***************************************************************************)
(* C1.  The tree a run returns for n taxa has exactly n leaves, the leaf   *)
(* with id str(p) carrying input label p and every position p used by      *)
(* exactly one leaf, and exactly n-2 internal nodes: the root, met once,    *)
(* and n-3 merge nodes.                                                    *)
(***************************************************************************)
C1_TreeShape ==
    Returned =>
        /\ n_original >= 3
        /\ Len(LeafVisits) = n_original
        /\ \A p \in Idx(n_original) :
              /\ Occurrences(LeafVisits, ToString(p)) = 1
              /\ TreeHeap[ToString(p)].label = arg_labels[p]
              /\ TreeHeap[ToString(p)].id = ToString(p)
        /\ Len(InternalVisits) = n_original - 2
        /\ Len(MergeVisits) = n_original - 3
        /\ Occurrences(InternalVisits, "root") = 1

C1_Witness ==
    /\ pc = "done"
    /\ n_original = 5
    /\ Len(LeafVisits) = 5
    /\ Len(MergeVisits) = 2

(***************************************************************************)
(* C2.  For a square input of n >= 3 taxa with n labels, when the loop of  *)
(* run() exits the active-node list has exactly 3 entries and the working  *)
(* matrix is 3 x 3, and the 'Expected 3 nodes' error is never raised.      *)
(* Stated for the run of a fresh instance, the only one build_nj_tree      *)
(* makes.                                                                  *)
(***************************************************************************)
C2_ThreeNodesAtExit ==
    (n_original >= 3 /\ runs <= 1) =>
        /\ err # "Expected 3 nodes"
        /\ (pc = "loop" /\ ~LoopContinues(n)) =>
              /\ Cardinality(DOMAIN active_nodes) = 3
              /\ Rows(current_matrix) = 3
              /\ Cols(current_matrix) = 3

C2_Witness ==
    /\ pc = "resolved"
    /\ runs = 1
    /\ iterations >= 2
    /\ Cardinality(DOMAIN active_nodes) = 3
    /\ Rows(current_matrix) = 3

(***************************************************************************)
(* C3.  The run of a fresh instance on n >= 3 taxa terminates: every pass  *)
(* of the loop takes n from some k >= 4 to k - 1, the loop is left for the *)
(* star resolution, which runs once (only another call of run() enters the *)
(* loop again), and then iterations = n - 3 (0 for n = 3, where no pass is *)
(* made).                                                                  *)
(***************************************************************************)
C3_RunTerminates ==
    /\ [][IterateStep => (n >= 4 /\ n' = n - 1)]_vars
    /\ [][(pc = "resolved" /\ pc' = "loop") => (last_call' = "run" /\ runs' = runs + 1)]_vars
    /\ [](Returned => (iterations = n_original - 3 /\ n = 3))
    /\ []((pc = "loop" /\ runs = 1) => iterations = n_original - n)
    /\ ((pc = "loop" /\ n_original >= 3 /\ runs = 1) ~> (pc = "resolved" /\ runs = 1))

C3_Witness ==
    /\ pc = "resolved"
    /\ runs = 1
    /\ n_original = 5
    /\ iterations = 2

(***************************************************************************)
(* C4.  build_nj_tree refuses a matrix whose rows and columns differ in    *)
(* number, and a label list whose length is not the matrix dimension, with *)
(* an error raised before anything is computed: no instance, no node, no   *)
(* Q cell, no iteration, and nothing returned.                             *)
(***************************************************************************)
C4_BadShapeRejected ==
    (/\ entry = "build"
     /\ pc # "start"
     /\ \/ Rows(arg_matrix) # Cols(arg_matrix)
        \/ Len0(arg_labels) # Rows(arg_matrix))
    => /\ pc = "failed"
       /\ err = (IF Rows(arg_matrix) # Cols(arg_matrix)
                 THEN "Distance matrix must be square"
                 ELSE "Number of labels must match matrix dimension")
       /\ nodes = <<>>
       /\ node_keys = <<>>
       /\ n_original = 0
       /\ original_matrix = NoMatrix
       /\ distance_matrix = NoMatrix
       /\ iterations = 0
       /\ total_operations = 0
       /\ root = NoNode
       /\ result = NoResult

C4_Witness ==
    /\ entry = "build"
    /\ pc = "failed"
    /\ Rows(arg_matrix) = Cols(arg_matrix)
    /\ Len0(arg_labels) < Rows(arg_matrix)
    /\ err = "Number of labels must match matrix dimension"

(***************************************************************************)
(* C5.  build_nj_tree refuses a 1 x 1 or 2 x 2 matrix with as many labels  *)
(* as malformed input before anything is computed: no instance and no node *)
(* is created, and no tree is returned.                                    *)
(***************************************************************************)
C5_TooFewTaxaRejectedFirst ==
    (/\ entry = "build"
     /\ pc # "start"
     /\ Rows(arg_matrix) = Cols(arg_matrix)
     /\ Len0(arg_labels) = Rows(arg_matrix)
     /\ Rows(arg_matrix) < 3)
    => /\ pc = "failed"
       /\ err # "Expected 3 nodes"
       /\ nodes = <<>>
       /\ n_original = 0
       /\ result = NoResult

(***************************************************************************)
(* C6.  At every loop head of run(), and at the star resolution, the       *)
(* working matrix is symmetric and has a zero diagonal.  Stated here for   *)
(* the runs build_nj_tree starts on n >= 3 taxa from a matrix whose own    *)
(* diagonal is zero.                                                       *)
(***************************************************************************)
C6_WorkingMatrixSymmetric ==
    (/\ entry = "build"
     /\ pc = "loop"
     /\ n_original >= 3
     /\ \A a \in DOMAIN arg_matrix : arg_matrix[a][a] = 0) =>
        \A a \in DOMAIN current_matrix : \A b \in DOMAIN current_matrix :
            /\ current_matrix[a][b] = current_matrix[b][a]
            /\ current_matrix[a][a] = 0

(***************************************************************************)
(* C7.  Every branch length in the tree a run returns is >= 0, and where   *)
(* the branch-length formula of a merge or the three-point formula gives a *)
(* negative value the branch length stored is exactly 0.                   *)
(***************************************************************************)
RawThreePoint(dist_matrix) ==
    <<dist_matrix[0][1] + dist_matrix[0][2] - dist_matrix[1][2],
      dist_matrix[0][1] + dist_matrix[1][2] - dist_matrix[0][2],
      dist_matrix[0][2] + dist_matrix[1][2] - dist_matrix[0][1]>>

C7_BranchLengthsClamped ==
    /\ [](Returned =>
            \A p \in DOMAIN Visits :
                /\ TreeHeap[Visits[p]].distance_to_parent.num >= 0
                /\ TreeHeap[Visits[p]].distance_to_parent.den > 0)
    /\ [][IterateStep =>
            /\ RawBranchI(current_matrix, sel'[1], sel'[2], n).num < 0
                  => nodes'[active_nodes[sel'[1]]].distance_to_parent.num = 0
            /\ RawBranchJ(current_matrix, sel'[1], sel'[2], n).num < 0
                  => nodes'[active_nodes[sel'[2]]].distance_to_parent.num = 0]_vars
    /\ [][ResolveStep =>
            \A c \in 0 .. 2 :
                RawThreePoint(current_matrix)[c + 1] < 0
                  => nodes'[active_nodes[c]].distance_to_parent.num = 0]_vars

\* The first merge of the run can be recomputed from self.distance_matrix,
\* which the run leaves alone, and leaf p sits in slot p of the first list.
FirstPair == find_minimum_q(calculate_q_matrix(distance_matrix, n_original), n_original)

C7_Witness ==
    /\ pc = "resolved"
    /\ n_original > 3
    /\ RawBranchI(distance_matrix, FirstPair[1], FirstPair[2], n_original).num < 0
    /\ nodes[ToString(FirstPair[1])].distance_to_parent.num = 0
    /\ nodes[ToString(FirstPair[2])].distance_to_parent.num > 0

(***************************************************************************)
(* C8.  Of the pairs that share the minimum Q score, find_minimum_q        *)
(* selects the first pair (i, j), i < j, in row-major order; it never      *)
(* selects a diagonal cell.                                                *)
(***************************************************************************)
QMinPairs(q, k) ==
    {pr \in UpperPairs(k) : \A alt \in UpperPairs(k) : q[pr[1]][pr[2]].v <= q[alt[1]][alt[2]].v}

LexFirst(pairs) ==
    CHOOSE pr \in pairs : \A alt \in pairs :
        pr[1] < alt[1] \/ (pr[1] = alt[1] /\ pr[2] <= alt[2])

C8_TieBreakFirstPair ==
    [][IterateStep =>
        /\ sel' = LexFirst(QMinPairs(calculate_q_matrix(current_matrix, n), n))
        /\ sel'[1] < sel'[2]
        /\ sel'[1] >= 0 /\ sel'[2] < n]_vars

C8_Witness ==
    /\ pc = "loop"
    /\ iterations = 1
    /\ Cardinality(QMinPairs(calculate_q_matrix(distance_matrix, n_original), n_original)) >= 2
    /\ sel = LexFirst(QMinPairs(calculate_q_matrix(distance_matrix, n_original), n_original))
    /\ sel # <<0, 1>>

(***************************************************************************)
(* C9.  On the 4-taxon matrix of test_tree_reconstruction the build makes  *)
(* exactly one merge (n = 4 to 3), then the star resolution; the result    *)
(* has 4 leaves, no negative branch length, and statistics.iterations = 1. *)
(***************************************************************************)
C9_FixtureRun ==
    (entry = "build" /\ arg_matrix = FixtureMatrix) =>
        /\ pc # "failed"
        /\ pc = "loop" => (n \in {3, 4} /\ iterations = 4 - n)
        /\ Returned =>
              /\ iterations = 1
              /\ Cardinality({LeafVisits[p] : p \in DOMAIN LeafVisits}) = 4
              /\ Len(LeafVisits) = 4
              /\ \A p \in DOMAIN Visits : TreeHeap[Visits[p]].distance_to_parent.num >= 0
        /\ pc = "done" =>
              /\ result.kind = "tree"
              /\ result.statistics.iterations = 1
              /\ result.statistics.n_taxa = 4

C9_Witness ==
    /\ entry = "build"
    /\ arg_matrix = FixtureMatrix
    /\ pc = "done"
    /\ result.statistics.iterations = 1

(***************************************************************************)
(* C10.  get_newick() on an instance whose run has not completed (no run   *)
(* has returned a root yet) raises the usage error 'Tree not yet           *)
(* constructed', returns nothing, and leaves the instance as it was:       *)
(* nodes, counters and matrices.                                           *)
(***************************************************************************)
C10_EarlyNewickIsUsageError ==
    [][(last_call' = "get_newick" /\ root = NoNode) =>
        /\ err' = "Tree not yet constructed"
        /\ result' = NoResult
        /\ UNCHANGED <<nodes, node_keys, iterations, total_operations, next_node_id,
                       original_matrix, distance_matrix, labels, current_labels,
                       n_original, pc>>]_vars

C10_Witness ==
    /\ last_call = "get_newick"
    /\ pc = "constructed"
    /\ err = "Tree not yet constructed"
    /\ nodes # <<>>
    /\ result = NoResult

(***************************************************************************)
(* C11.  Once run() has returned the root on an instance the caller holds, *)
(* get_newick() on that instance returns the Newick string of the tree     *)
(* and does not raise 'Tree not yet constructed'.                          *)
(***************************************************************************)
C11_NewickAfterRun ==
    (/\ entry = "direct"
     /\ pc = "resolved"
     /\ last_call = "get_newick")
    => /\ err = "none"
       /\ result.kind = "newick"
       /\ result.newick = NewickOf(TreeHeap)

(***************************************************************************)
(* C12.  Once run() has returned a root on an instance, no later step on   *)
(* that instance (run, get_newick, get_statistics) makes a merge pass,     *)
(* increases iterations, adds a node other than the stored root, or        *)
(* changes the children or the branch length of a node.                    *)
(***************************************************************************)
C12_OneReconstruction ==
    [][root # NoNode =>
        /\ ~IterateStep
        /\ iterations' = iterations
        /\ next_node_id' = next_node_id
        /\ DOMAIN nodes' \subseteq (DOMAIN nodes \cup {"root"})
        /\ \A id \in DOMAIN nodes :
              /\ id \in DOMAIN nodes'
              /\ nodes'[id].children = nodes[id].children
              /\ nodes'[id].distance_to_parent = nodes[id].distance_to_parent]_vars

(***************************************************************************)
(* C13.  Serialisation is read-only and idempotent: a get_newick(),        *)
(* get_statistics(), to_newick() or to_dict() step changes no node, no     *)
(* counter and no matrix, and what a call returned is what the same call   *)
(* returns in every later state of the unchanged tree: the string of       *)
(* get_newick() is NewickOf of the nodes, also after build_nj_tree.        *)
(***************************************************************************)
Serializers == {"get_newick", "get_statistics", "to_newick", "to_dict"}

C13_SerializationReadOnly ==
    /\ [][last_call' \in Serializers => UNCHANGED <<inst_vars, run_vars, runs, pc>>]_vars
    /\ []((last_call = "get_newick" /\ err = "none") =>
            (result.kind = "newick" /\ result.newick = NewickOf(nodes)))
    /\ []((last_call = "to_newick" /\ pc = "resolved") =>
            result.newick = to_newick(root, nodes))
    /\ []((last_call = "to_dict" /\ pc = "resolved") =>
            result.tree = to_dict(root, nodes))
    /\ []((last_call = "get_statistics" /\ pc # "loop") =>
            result.statistics = StatisticsOf(n_original, iterations, total_operations))
    /\ [](pc = "done" =>
            /\ result.newick = NewickOf(nodes)
            /\ result.tree = to_dict(root, nodes)
            /\ result.statistics = StatisticsOf(n_original, iterations, total_operations))

C13_Witness ==
    /\ entry = "direct"
    /\ last_call = "get_newick"
    /\ err = "none"
    /\ n_original = 4
    /\ iterations = 1
    /\ result.newick = NewickOf(nodes)

(***************************************************************************)
(* C14.  build_nj_tree does not refuse a square matrix that is not         *)
(* symmetric: the instance starts from the average of its two triangles,   *)
(* M'[i][j] = (M[i][j] + M[j][i]) / 2, a symmetric matrix; a symmetric     *)
(* input is the start matrix unchanged.                                    *)
(***************************************************************************)
C14_AsymmetricInputAveraged ==
    (/\ entry = "build"
     /\ pc = "constructed"
     /\ n_original >= 3)
    => \A a \in DOMAIN arg_matrix : \A b \in DOMAIN arg_matrix :
          /\ 2 * distance_matrix[a][b] = (arg_matrix[a][b] + arg_matrix[b][a]) * Scale
          /\ distance_matrix[a][b] = distance_matrix[b][a]

(***************************************************************************)
(* C15.  In the tree a run returns every node is met exactly once from the *)
(* root and has exactly one parent, so every two distinct leaves are       *)
(* joined by exactly one path (up from each to their lowest common         *)
(* ancestor), and the sum of the branch lengths along it is >= 0.          *)
(***************************************************************************)
RECURSIVE Lcm1To(_)
Gcd(a, b) == CHOOSE g \in 1 .. a : a % g = 0 /\ b % g = 0
                                  /\ \A h \in (g + 1) .. a : ~(a % h = 0 /\ b % h = 0)
Lcm1To(k) == IF k <= 1 THEN 1 ELSE (Lcm1To(k - 1) * k) \div Gcd(k, Lcm1To(k - 1))

\* Every denominator of a branch length, 1, 2 or 2*(k-2) for 3 < k <= MaxN,
\* divides CommonDen.
CommonDen == 2 * Lcm1To(MaxN - 2)

\* The parents of id among the nodes `ids` of the heap `heap`.
Parents(id, heap, ids) ==
    {par \in ids : \E c \in DOMAIN heap[par].children : heap[par].children[c] = id}

\* The nodes from id up to, not including, the root: one per edge climbed.
RECURSIVE UpChain(_, _, _)
UpChain(id, heap, ids) ==
    IF id = "root" THEN {}
    ELSE {id} \cup UpChain(CHOOSE par \in Parents(id, heap, ids) : TRUE, heap, ids)

\* The edges of the path between two nodes, each named by its lower end,
\* given the chain of each node.
PathEdges(a, b, up) == (up[a] \ up[b]) \cup (up[b] \ up[a])

RECURSIVE SumLengths(_, _)
SumLengths(S, heap) ==
    IF S = {} THEN 0
    ELSE LET id == CHOOSE x \in S : TRUE
         IN  heap[id].distance_to_parent.num * (CommonDen \div heap[id].distance_to_parent.den)
                + SumLengths(S \ {id}, heap)

\* The tree is read once per state: its heap, its walk, the set of nodes met
\* and each node's chain to the root.
C15_UniqueNonNegativePaths ==
    Returned =>
        \A heap \in {TreeHeap} : \A walk \in {Walk("root", heap)} :
        \A ids \in {{walk[p] : p \in DOMAIN walk}} :
            /\ \A p \in DOMAIN walk : \A q \in DOMAIN walk : p # q => walk[p] # walk[q]
            /\ \A id \in ids \ {"root"} : Cardinality(Parents(id, heap, ids)) = 1
            /\ Parents("root", heap, ids) = {}
            /\ \A id \in ids : CommonDen % heap[id].distance_to_parent.den = 0
            /\ \A up \in {[id \in ids |-> UpChain(id, heap, ids)]} :
               \A a \in ids : \A b \in ids :
                  (heap[a].is_leaf /\ heap[b].is_leaf /\ a # b) =>
                      /\ PathEdges(a, b, up) # {}
                      /\ SumLengths(PathEdges(a, b, up), heap) >= 0

C15_Witness ==
    /\ pc = "resolved"
    /\ n_original = 5
    /\ \E heap \in {TreeHeap} : \E ids \in {{Visits[p] : p \in DOMAIN Visits}} :
       \E up \in {[id \in ids |-> UpChain(id, heap, ids)]} :
          /\ Cardinality(PathEdges("0", "4", up)) >= 3
          /\ SumLengths(PathEdges("0", "4", up), heap) > 0
          /\ \E id \in ids : heap[id].is_leaf /\ heap[id].distance_to_parent.num = 0

(***************************************************************************)
(* C16.  Two build_nj_tree calls on inputs of their own, their steps       *)
(* interleaved in any order, share no mutable state: a step of one leaves  *)
(* every field and local of the other as it was, and when a call has ended *)
(* its tree, Newick string, iterations, total_operations, and every other  *)
(* field, are those of the same call run alone.                            *)
(***************************************************************************)
C16_InstancesIndependent ==
    /\ [][other' # other => UNCHANGED self_vars]_vars
    /\ [][self_vars' # self_vars => other' = other]_vars
    /\ [](Ended(Self) =>
            Self = RunAlone(StartOf([matrix |-> arg_matrix, labels |-> arg_labels])))
    /\ [](Ended(other) =>
            other = RunAlone(StartOf([matrix |-> other.arg_matrix, labels |-> other.arg_labels])))

C16_Witness ==
    /\ pc = "done"
    /\ other.pc = "done"
    /\ iterations = 2
    /\ other.iterations = 1
    /\ result.newick # other.result.newick
    /\ other.total_operations = 18
    /\ total_operations = 48

(***************************************************************************)
(* C17.  total_operations never decreases; a pass of the loop at size k    *)
(* adds exactly 3 for each of the k(k-1)/2 unordered pairs; after the run  *)
(* of a fresh instance on n taxa it is 3 * sum over k = 4..n of k(k-1)/2   *)
(* (0 for n = 3), and the statistics report it, with n_taxa = n.           *)
(***************************************************************************)
RECURSIVE ExpectedOperations(_)
ExpectedOperations(m) ==
    IF m <= 3 THEN 0 ELSE 3 * ((m * (m - 1)) \div 2) + ExpectedOperations(m - 1)

C17_OperationCount ==
    /\ [][total_operations' >= total_operations]_vars
    /\ [][IterateStep => total_operations' = total_operations + 3 * ((n * (n - 1)) \div 2)]_vars
    /\ [][~IterateStep => total_operations' = total_operations]_vars
    /\ []((Returned /\ runs = 1) => total_operations = ExpectedOperations(n_original))
    /\ [](pc = "done" =>
            /\ result.statistics.total_operations = ExpectedOperations(Rows(arg_matrix))
            /\ result.statistics.n_taxa = Rows(arg_matrix)
            /\ result.statistics.n_taxa = Len0(arg_labels))
    /\ []((last_call = "get_statistics" /\ pc = "resolved" /\ runs = 1) =>
            /\ result.statistics.total_operations = ExpectedOperations(Rows(arg_matrix))
            /\ result.statistics.n_taxa = Rows(arg_matrix))

C17_Witness ==
    /\ pc = "done"
    /\ n_original = 5
    /\ total_operations = 48
    /\ result.statistics.total_operations = 48
    /\ result.statistics.n_taxa = 5

(***************************************************************************)
(* C18.  For a symmetric input with non-negative cells and zero diagonal,  *)
(* every cell of the working matrix is non-negative at every loop head and *)
(* at the star resolution, the cells the contraction computes for the      *)
(* merged node included.                                                   *)
(***************************************************************************)
CleanInput ==
    \A a \in DOMAIN arg_matrix : \A b \in DOMAIN arg_matrix :
        /\ arg_matrix[a][b] = arg_matrix[b][a]
        /\ arg_matrix[a][b] >= 0
        /\ arg_matrix[a][a] = 0

C18_WorkingMatrixNonNegative ==
    (pc = "loop" /\ runs = 1 /\ n_original >= 3 /\ CleanInput) =>
        \A a \in DOMAIN current_matrix : \A b \in DOMAIN current_matrix :
            current_matrix[a][b] >= 0

(***************************************************************************)
(* C19.  In every pass at size k the selected pair (i, j) has              *)
(* 0 <= i < j < k and minimises Q(a, b) = (k-2)*D(a, b) - R(a) - R(b) over *)
(* all pairs a < b, D the working matrix of this pass and R its row sums.  *)
(***************************************************************************)
RECURSIVE SumCells(_, _, _)
SumCells(D, a, c) == IF c < 0 THEN 0 ELSE D[a][c] + SumCells(D, a, c - 1)

\* R(a): the sum of row a of the k x k matrix D
R(D, k, a) == SumCells(D, a, k - 1)

\* Q(a, b) as the claim writes it
Q(D, k, a, b) == (k - 2) * D[a][b] - R(D, k, a) - R(D, k, b)

C19_SelectedPairMinimisesQ ==
    [][IterateStep =>
        /\ 0 <= sel'[1] /\ sel'[1] < sel'[2] /\ sel'[2] < n
        /\ Rows(current_matrix) = n /\ Cols(current_matrix) = n
        /\ \A least \in {Q(current_matrix, n, sel'[1], sel'[2])} :
              \A pr \in UpperPairs(n) : least <= Q(current_matrix, n, pr[1], pr[2])]_vars

C19_Witness ==
    /\ pc = "loop"
    /\ runs = 1
    /\ n_original = 5
    /\ iterations = 2
    /\ sel # <<0, 1>>
    /\ sel # FirstPair

(***************************************************************************)
(* C20.  As claimed: a pass at size k > 2 stores, for the selected pair,   *)
(* v_i = max(0, 0.5*D(i,j) + (R(i)-R(j)) / (2*(k-2))) and                  *)
(* v_j = max(0, D(i,j) - v_i), v_i being that clamped value, and raises    *)
(* nothing.  Lengths are compared as numerators over 2*(k-2).              *)
(***************************************************************************)
RawVi(D, k, i, j) == (k - 2) * D[i][j] + (R(D, k, i) - R(D, k, j))
StoredVi == nodes'[active_nodes[sel'[1]]].distance_to_parent
StoredVj == nodes'[active_nodes[sel'[2]]].distance_to_parent

C20_BranchLengthsAsClaimed ==
    [][IterateStep =>
        \A raw \in {RawVi(current_matrix, n, sel'[1], sel'[2])} :
            /\ StoredVi = Frac(Max0(raw), 2 * (n - 2))
            /\ StoredVj = Frac(Max0(2 * (n - 2) * current_matrix[sel'[1]][sel'[2]] - Max0(raw)),
                               2 * (n - 2))
            /\ err' = "none"]_vars

(***************************************************************************)
(* C20, amended.  v_i = max(0, r) and v_j = max(0, D(i,j) - r), where      *)
(* r = 0.5*D(i,j) + (R(i)-R(j)) / (2*(k-2)) is the value before clamping;  *)
(* a negative value is stored as 0 and nothing is raised.                  *)
(***************************************************************************)
C20_BranchLengthsFromRaw ==
    [][IterateStep =>
        \A raw \in {RawVi(current_matrix, n, sel'[1], sel'[2])} :
            /\ StoredVi = Frac(Max0(raw), 2 * (n - 2))
            /\ StoredVj = Frac(Max0(2 * (n - 2) * current_matrix[sel'[1]][sel'[2]] - raw),
                               2 * (n - 2))
            /\ err' = "none"
            /\ pc' = "loop"]_vars

C20_Witness ==
    /\ pc = "loop"
    /\ runs = 1
    /\ iterations = 1
    /\ CleanInput
    /\ RawVi(distance_matrix, n_original, FirstPair[1], FirstPair[2]) < 0
    /\ nodes[ToString(FirstPair[1])].distance_to_parent.num = 0
    /\ nodes[ToString(FirstPair[2])].distance_to_parent.num
          > 2 * (n_original - 2) * distance_matrix[FirstPair[1]][FirstPair[2]]

(***************************************************************************)
(* C21.  A pass that merges (i, j), i < j, of a k x k working matrix D     *)
(* leaves a (k-1) x (k-1) matrix in which the merged node sits at index i  *)
(* and its distance to every other surviving node m, below i as well as    *)
(* above i, is 0.5*(D(i,m) + D(j,m) - D(i,j)), in row i and in column i.   *)
(* Stated for symmetric, non-negative inputs with a zero diagonal.         *)
(***************************************************************************)
\* old_to_new[m] for m # j
NewIndex(m, j) == IF m < j THEN m ELSE m - 1

C21_MergedRowFromFormula ==
    [][(IterateStep /\ runs = 1 /\ CleanInput) =>
        \A i \in {sel'[1]} : \A j \in {sel'[2]} :
            /\ Rows(current_matrix') = n - 1
            /\ Cols(current_matrix') = n - 1
            /\ active_nodes'[i] = ToString(next_node_id)
            /\ \A m \in Idx(n) \ {i, j} :
                  /\ 2 * current_matrix'[i][NewIndex(m, j)]
                        = current_matrix[i][m] + current_matrix[j][m] - current_matrix[i][j]
                  /\ current_matrix'[NewIndex(m, j)][i] = current_matrix'[i][NewIndex(m, j)]]_vars

(***************************************************************************)
(* C22.  A merge of (i, j) leaves every other distance as it was: for two  *)
(* slots a < b that are neither i nor j, the node of each is the node of   *)
(* its new slot, and the new matrix holds at the new slots, in both        *)
(* orders, the distance D(a, b) the old matrix held (read, as the code     *)
(* reads every distance, from the cell of the lower slot's row).  Hence,   *)
(* after any number of passes, row p of the working matrix belongs to the  *)
(* node in slot p: two leaves still active are as far apart as their taxa  *)
(* were in the matrix the run started from.                                *)
(***************************************************************************)
\* The taxon index of a leaf id: the p with str(p) = id
TaxonOf(id) == CHOOSE p \in Idx(n_original) : ToString(p) = id

IsLeafId(id) == \E p \in Idx(n_original) : ToString(p) = id

C22_OtherDistancesKept ==
    /\ [][IterateStep =>
            \A i \in {sel'[1]} : \A j \in {sel'[2]} :
            \A a \in Idx(n) \ {i, j} : \A b \in Idx(n) \ {i, j} :
                /\ active_nodes'[NewIndex(a, j)] = active_nodes[a]
                /\ a < b =>
                      /\ current_matrix'[NewIndex(a, j)][NewIndex(b, j)] = current_matrix[a][b]
                      /\ current_matrix'[NewIndex(b, j)][NewIndex(a, j)] = current_matrix[a][b]]_vars
    /\ []((pc \in {"loop", "resolved"} /\ runs = 1) =>
            /\ Rows(current_matrix) = Cardinality(DOMAIN active_nodes)
            /\ \A p \in DOMAIN active_nodes : \A q \in DOMAIN active_nodes :
                  (p < q /\ IsLeafId(active_nodes[p]) /\ IsLeafId(active_nodes[q])) =>
                      /\ TaxonOf(active_nodes[p]) < TaxonOf(active_nodes[q])
                      /\ current_matrix[p][q]
                            = distance_matrix[TaxonOf(active_nodes[p])][TaxonOf(active_nodes[q])]
                      /\ iterations > 0 => current_matrix[q][p] = current_matrix[p][q])

C22_Witness ==
    /\ pc = "resolved"
    /\ runs = 1
    /\ iterations >= 2
    /\ \E p \in DOMAIN active_nodes : \E q \in DOMAIN active_nodes :
          /\ p < q
          /\ IsLeafId(active_nodes[p])
          /\ IsLeafId(active_nodes[q])
          /\ TaxonOf(active_nodes[p]) > p
          /\ TaxonOf(active_nodes[q]) > q
          /\ current_matrix[p][q] # distance_matrix[p][q]
          /\ current_matrix[p][q]
                = distance_matrix[TaxonOf(active_nodes[p])][TaxonOf(active_nodes[q])]

(***************************************************************************)
(* C23.  A merge of (i, j), i < j, makes the active-node list one shorter: *)
(* slot i names the node just created, the entry of slot j is gone, the    *)
(* slots below j other than i keep their nodes and every slot above j      *)
(* holds its node one place lower, the order kept.  At every loop head of  *)
(* the run of a fresh instance the list is as long as the working matrix   *)
(* is wide, and that is the local n.                                       *)
(***************************************************************************)
C23_ActiveListInLockstep ==
    /\ [][IterateStep =>
            \A i \in {sel'[1]} : \A j \in {sel'[2]} :
                /\ i < j
                /\ DOMAIN active_nodes' = Idx(Cardinality(DOMAIN active_nodes) - 1)
                /\ active_nodes'[i] = ToString(next_node_id)
                /\ active_nodes'[i] \in DOMAIN nodes' \ DOMAIN nodes
                /\ \A p \in DOMAIN active_nodes :
                      /\ (p < j /\ p # i) => active_nodes'[p] = active_nodes[p]
                      /\ p > j => active_nodes'[p - 1] = active_nodes[p]
                /\ \A p \in DOMAIN active_nodes' :
                      p # i => active_nodes'[p] # active_nodes[j]]_vars
    /\ []((pc = "loop" /\ runs = 1) =>
            /\ DOMAIN active_nodes = Idx(n)
            /\ Rows(current_matrix) = n
            /\ Cols(current_matrix) = n
            /\ \A p \in DOMAIN active_nodes : \A q \in DOMAIN active_nodes :
                  p # q => active_nodes[p] # active_nodes[q])

C23_Witness ==
    /\ pc = "loop"
    /\ runs = 1
    /\ n_original = 5
    /\ iterations = 1
    /\ sel = <<1, 2>>
    /\ active_nodes = [p \in Idx(4) |-> <<"0", "5", "3", "4">>[p + 1]]
    /\ Rows(current_matrix) = 4

(***************************************************************************)
(* C24.  Internal node ids are handed out in sequence, one per merge in    *)
(* merge order: the merge made after t earlier ones creates node str(n+t), *)
(* n the taxon count.  After the run of a fresh instance on n taxa the     *)
(* merge nodes are those of ids n .. 2n-4.  Every node is stored under its *)
(* own id, so ids are pairwise distinct, and the id of a merge node is     *)
(* neither a leaf id 0 .. n-1 nor 'root'.                                  *)
(***************************************************************************)
LeafIds == {ToString(p) : p \in Idx(n_original)}
MergeIds == {id \in DOMAIN nodes : ~nodes[id].is_leaf /\ id # "root"}

C24_SequentialNodeIds ==
    /\ [][IterateStep =>
            \E id \in DOMAIN nodes' \ DOMAIN nodes :
                /\ DOMAIN nodes' = DOMAIN nodes \cup {id}
                /\ id = ToString(n_original + iterations)
                /\ nodes'[id].id = id
                /\ ~nodes'[id].is_leaf
                /\ id \notin LeafIds
                /\ id # "root"
                /\ next_node_id' = next_node_id + 1]_vars
    /\ [](pc \notin {"start", "failed"} =>
            /\ next_node_id = n_original + iterations
            /\ \A key \in DOMAIN nodes : nodes[key].id = key
            /\ {id \in DOMAIN nodes : nodes[id].is_leaf} = LeafIds
            /\ MergeIds = {ToString(m) : m \in n_original .. (next_node_id - 1)}
            /\ MergeIds \cap LeafIds = {}
            /\ Cardinality(DOMAIN nodes)
                  = n_original + iterations + (IF "root" \in DOMAIN nodes THEN 1 ELSE 0))
    /\ []((Returned /\ runs = 1) =>
            /\ MergeIds = {ToString(m) : m \in n_original .. (2 * n_original - 4)}
            /\ root.id = "root"
            /\ \A c \in DOMAIN root.children : root.children[c] \in LeafIds \cup MergeIds)

C24_Witness ==
    /\ pc = "done"
    /\ n_original = 5
    /\ DOMAIN nodes = {"0", "1", "2", "3", "4", "5", "6", "root"}
    /\ MergeIds = {"5", "6"}
    /\ next_node_id = 7

(***************************************************************************)
(* C25.  In the run of a fresh instance a node gets its distance_to_parent *)
(* at the step that joins it to its parent and at no other step: a pass    *)
(* writes the two selected nodes, which had no parent, are the children of *)
(* the node the pass creates and leave the active list; the star           *)
(* resolution writes the three nodes left, which had no parent and become  *)
(* the root's children.  A node off the active list has its one parent and *)
(* is never written again, so once the run has returned every node but the *)
(* root was written exactly once.  No step changes the id, the label, the  *)
(* leaf flag or the child list of a node that exists.                      *)
(***************************************************************************)
\* node.id, node.label, node.is_leaf, node.children
Identity(node) == <<node.id, node.label, node.is_leaf, node.children>>

ActiveSet(active) == {active[p] : p \in DOMAIN active}

C25_JoinedOnceThenFixed ==
    /\ [][\A id \in DOMAIN nodes :
            id \in DOMAIN nodes' /\ Identity(nodes'[id]) = Identity(nodes[id])]_vars
    /\ [][(IterateStep /\ runs = 1) =>
            \A ids \in {DOMAIN nodes} : \A a \in {active_nodes[sel'[1]]} :
            \A b \in {active_nodes[sel'[2]]} : \A new \in DOMAIN nodes' \ ids :
                /\ a # b
                /\ Parents(a, nodes, ids) = {} /\ Parents(b, nodes, ids) = {}
                /\ nodes'[new].children = <<a, b>>
                /\ nodes'[new].distance_to_parent = Zero
                /\ a \notin ActiveSet(active_nodes') /\ b \notin ActiveSet(active_nodes')
                /\ \A id \in ids \ {a, b} : nodes'[id] = nodes[id]]_vars
    /\ [][(ResolveStep /\ runs = 1) =>
            \A ids \in {DOMAIN nodes} :
                /\ \A id \in ActiveSet(active_nodes) : Parents(id, nodes, ids) = {}
                /\ ActiveSet(active_nodes) = {root'.children[c] : c \in DOMAIN root'.children}
                /\ Len(root'.children) = 3
                /\ \A id \in ids \ ActiveSet(active_nodes) : nodes'[id] = nodes[id]]_vars
    /\ [][(runs = 1 /\ ~IterateStep /\ ~ResolveStep) =>
            \A id \in DOMAIN nodes : nodes'[id] = nodes[id]]_vars
    /\ []((pc = "loop" /\ runs = 1) =>
            \A ids \in {DOMAIN nodes} : \A id \in ids :
                IF id \in ActiveSet(active_nodes)
                THEN Parents(id, nodes, ids) = {} /\ nodes[id].distance_to_parent = Zero
                ELSE Cardinality(Parents(id, nodes, ids)) = 1)
    /\ []((Returned /\ runs = 1) =>
            \A heap \in {TreeHeap} : \A ids \in {DOMAIN heap} :
                \A id \in ids \ {"root"} : Cardinality(Parents(id, heap, ids)) = 1)

C25_Witness ==
    /\ pc = "resolved"
    /\ runs = 1
    /\ n_original = 5
    /\ nodes["5"].children = <<"1", "2">>
    /\ nodes["1"].distance_to_parent.num > 0
    /\ nodes["6"].children = <<"0", "5">>
    /\ "6" \in ActiveSet(active_nodes)
    /\ "5" \notin ActiveSet(active_nodes)
    /\ nodes["3"].distance_to_parent.num > 0

(***************************************************************************)
(* C26.  The star resolution of the three nodes A, B, C left, in the order *)
(* of the active list, with d_AB, d_AC, d_BC the cells [0][1], [0][2],     *)
(* [1][2] of the final 3 x 3 working matrix: len(A) = max(0, 0.5*(d_AB +   *)
(* d_AC - d_BC)), len(B) = max(0, 0.5*(d_AB + d_BC - d_AC)), len(C) =      *)
(* max(0, 0.5*(d_AC + d_BC - d_AB)).  The root returned has id 'root',     *)
(* branch length 0, is not a leaf and has the children A, B, C in that     *)
(* order.  No Q matrix is computed: the operation and iteration counters   *)
(* stay as they are, and no node is added.                                 *)
(***************************************************************************)
C26_StarResolution ==
    [][ResolveStep =>
        \A A \in {active_nodes[0]} : \A B \in {active_nodes[1]} : \A C \in {active_nodes[2]} :
        \A d_AB \in {current_matrix[0][1]} : \A d_AC \in {current_matrix[0][2]} :
        \A d_BC \in {current_matrix[1][2]} :
            /\ DOMAIN active_nodes = 0 .. 2
            /\ Rows(current_matrix) = 3 /\ Cols(current_matrix) = 3
            /\ nodes'[A].distance_to_parent = Frac(Max0(d_AB + d_AC - d_BC), 2)
            /\ nodes'[B].distance_to_parent = Frac(Max0(d_AB + d_BC - d_AC), 2)
            /\ nodes'[C].distance_to_parent = Frac(Max0(d_AC + d_BC - d_AB), 2)
            /\ root'.id = "root"
            /\ root'.label = "root"
            /\ root'.distance_to_parent = Zero
            /\ ~root'.is_leaf
            /\ root'.children = <<A, B, C>>
            /\ DOMAIN nodes' = DOMAIN nodes
            /\ UNCHANGED <<total_operations, iterations, next_node_id, current_matrix,
                           active_nodes, n>>
            /\ err' = "none"]_vars

C26_Witness ==
    /\ pc = "resolved"
    /\ runs = 1
    /\ iterations >= 1
    /\ root.children = <<active_nodes[0], active_nodes[1], active_nodes[2]>>
    /\ \E c \in 0 .. 2 :
          /\ RawThreePoint(current_matrix)[c + 1] < 0
          /\ nodes[active_nodes[c]].distance_to_parent.num = 0
          /\ \A e \in (0 .. 2) \ {c} : nodes[active_nodes[e]].distance_to_parent.num > 0
    /\ nodes[active_nodes[1]].distance_to_parent # nodes[active_nodes[2]].distance_to_parent

(***************************************************************************)
(* C27.  What a run returns is a tree over the nodes of the builder: a     *)
(* leaf has no child, a merge node has exactly two, the root exactly       *)
(* three; the children of a node are different nodes of the builder; every *)
(* node but the root is listed as a child exactly once, by one parent, and *)
(* the root by none; every node of the builder is reached from the root.   *)
(***************************************************************************)
\* How many child slots of the nodes `ids` name id.
ChildSlots(id, heap, ids) ==
    Cardinality({sl \in UNION {{<<par, c>> : c \in DOMAIN heap[par].children} : par \in ids} :
                    heap[sl[1]].children[sl[2]] = id})

C27_ResultIsTree ==
    Returned =>
        \A heap \in {TreeHeap} : \A ids \in {DOMAIN heap} :
        \A walk \in {Walk("root", heap)} :
            /\ \A id \in ids :
                  /\ Len(heap[id].children)
                        = (IF id = "root" THEN 3 ELSE IF heap[id].is_leaf THEN 0 ELSE 2)
                  /\ \A c \in DOMAIN heap[id].children : heap[id].children[c] \in ids \ {id}
                  /\ ChildSlots(id, heap, ids) = (IF id = "root" THEN 0 ELSE 1)
                  /\ Cardinality(Parents(id, heap, ids)) = (IF id = "root" THEN 0 ELSE 1)
            /\ ~heap["root"].is_leaf
            /\ {walk[p] : p \in DOMAIN walk} = ids
            /\ Len(walk) = Cardinality(ids)
            /\ Cardinality(ids) = 2 * n_original - 2

C27_Witness ==
    /\ pc = "done"
    /\ n_original = 5
    /\ \E a \in MergeIds : \E b \in MergeIds :
          /\ a # b
          /\ \E c \in DOMAIN nodes[a].children : nodes[a].children[c] = b
          /\ \A c \in DOMAIN nodes[b].children : nodes[nodes[b].children[c]].is_leaf
          /\ \E c \in DOMAIN nodes["root"].children : nodes["root"].children[c] = a
    /\ Cardinality({c \in DOMAIN nodes["root"].children :
                       nodes[nodes["root"].children[c]].is_leaf}) = 2

(***************************************************************************)
(* ProjectionQualityMetrics.find_k_nearest_neighbors(D, k) of              *)
(* src/backend-python/app/projection_quality.py, called on its own.  The   *)
(* call is held in `knn`: its arguments D and k, its locals n, i and       *)
(* neighbors, and its position.  A row of distances is a row of Q cells,   *)
(* finite or +infinity.                                                    *)
(***************************************************************************)
MaxPoints == 3

\* Mutant of Distances: the self-distance is left as it is.
Distances_SelfKept(D, i) == [b \in DOMAIN D[i] |-> Fin(D[i][b])]

\* distances = D[i].astype(np.float64); distances[i] = np.inf
Distances(D, i) == [b \in DOMAIN D[i] |-> IF b = i THEN Inf ELSE Fin(D[i][b])]

\* np.argpartition(distances, k)[:k].  argpartition returns a permutation of
\* the indices whose entry at position k is in its sorted place, with nothing
\* larger before it and nothing smaller after it; which of the permutations
\* that qualify is returned is left to the selection algorithm.  The result
\* is any one of their prefixes of length k.
ArgPartitionPrefixes(distances, k) ==
    {s \in [Idx(k) -> DOMAIN distances] :
        /\ \A x \in Idx(k) : \A y \in Idx(k) : x # y => s[x] # s[y]
        /\ \E pivot \in DOMAIN distances \ {s[x] : x \in Idx(k)} :
              /\ \A x \in Idx(k) : ~QLess(distances[pivot], distances[s[x]])
              /\ \A y \in DOMAIN distances \ ({pivot} \cup {s[x] : x \in Idx(k)}) :
                    ~QLess(distances[y], distances[pivot])}

KnnInputs ==
    {[D |-> SymMatrix(m, S), k |-> k] :
        <<m, S, k>> \in {t \in (2 .. MaxPoints) \X (SUBSET UpperPairs(MaxPoints))
                                \X (1 .. MaxPoints) :
                            t[2] \in HeavySets(t[1]) /\ t[3] < t[1]}}

\* No Tree Builder call is made.
BuilderIdle ==
    /\ entry = "direct"
    /\ arg_matrix = NoMatrix
    /\ arg_labels = <<>>
    /\ pc = "start"
    /\ err = "none"
    /\ last_call = "none"
    /\ original_matrix = NoMatrix
    /\ labels = <<>>
    /\ n_original = 0
    /\ distance_matrix = NoMatrix
    /\ current_labels = <<>>
    /\ nodes = <<>>
    /\ node_keys = <<>>
    /\ next_node_id = 0
    /\ iterations = 0
    /\ total_operations = 0
    /\ n = 0
    /\ current_matrix = NoMatrix
    /\ active_nodes = <<>>
    /\ sel = <<0, 0>>
    /\ root = NoNode
    /\ result = NoResult
    /\ runs = 0
    /\ other = NoBuilder

KnnInit ==
    /\ BuilderIdle
    /\ branch_call = NoCall
    /\ \E inp \in KnnInputs :
          knn = [pc |-> "start", D |-> inp.D, k |-> inp.k, n |-> 0, i |-> 0,
                 neighbors |-> <<>>]

builder_vars == <<self_vars, other>>

\* n = D.shape[0]; neighbors = np.zeros((n, k), dtype=int)
KnnBegin ==
    /\ knn.pc = "start"
    /\ knn' = [knn EXCEPT !.pc = "loop",
                          !.n = Rows(knn.D),
                          !.i = 0,
                          !.neighbors = [a \in Idx(Rows(knn.D)) |-> [x \in Idx(knn.k) |-> 0]]]
    /\ UNCHANGED <<builder_vars, branch_call>>

\* One pass of `for i in range(n)`
KnnRow ==
    /\ knn.pc = "loop"
    /\ knn.i < knn.n
    /\ \E row \in ArgPartitionPrefixes(Distances(knn.D, knn.i), knn.k) :
          knn' = [knn EXCEPT !.neighbors[knn.i] = row, !.i = knn.i + 1]
    /\ UNCHANGED <<builder_vars, branch_call>>

\* return neighbors
KnnReturn ==
    /\ knn.pc = "loop"
    /\ knn.i >= knn.n
    /\ knn' = [knn EXCEPT !.pc = "done"]
    /\ UNCHANGED <<builder_vars, branch_call>>

KnnNext ==
    \/ KnnBegin
    \/ KnnRow
    \/ KnnReturn

KnnSpec == KnnInit /\ [][KnnNext]_vars

(***************************************************************************)
(* C28.  For a distance matrix over n points and a k with 1 <= k < n,      *)
(* find_k_nearest_neighbors returns an n-row array that holds for every    *)
(* point i exactly k neighbour indices, each in 0 .. n-1 and none equal to *)
(* i; the k indices of a row differ from one another, and D is left as it  *)
(* was.                                                                    *)
(***************************************************************************)
C28_KNeighboursPerPoint ==
    /\ [](knn.pc = "done" =>
            /\ 1 <= knn.k /\ knn.k < knn.n
            /\ DOMAIN knn.neighbors = Idx(knn.n)
            /\ \A i \in Idx(knn.n) :
                  /\ DOMAIN knn.neighbors[i] = Idx(knn.k)
                  /\ Cardinality({knn.neighbors[i][x] : x \in Idx(knn.k)}) = knn.k
                  /\ \A x \in Idx(knn.k) :
                        /\ knn.neighbors[i][x] \in 0 .. (knn.n - 1)
                        /\ knn.neighbors[i][x] # i)
    /\ [][knn'.D = knn.D /\ knn'.k = knn.k]_vars

C28_Witness ==
    /\ knn.pc = "done"
    /\ knn.n = 3
    /\ knn.k = 2
    /\ knn.D[0][1] = Hi
    /\ knn.neighbors[0] = [x \in Idx(2) |-> <<2, 1>>[x + 1]]
    /\ knn.neighbors[2] = [x \in Idx(2) |-> <<0, 1>>[x + 1]]

(***************************************************************************)
(* C29.  run() works on copies.  Once the instance is constructed no step  *)
(* changes self.original_matrix, self.distance_matrix, self.labels,        *)
(* self.current_labels or the caller's matrix and label list; run() starts *)
(* from the values of self.distance_matrix.  In a pass at size k > 2 the Q *)
(* matrix is an array of its own, so that filling its diagonal with        *)
(* +infinity leaves the working matrix as it was: steps 3 and 5 of the     *)
(* pass read the matrix the pass started with.                             *)
(***************************************************************************)
C29_RunWorksOnCopies ==
    /\ [][pc # "start" =>
            UNCHANGED <<original_matrix, distance_matrix, labels, current_labels,
                        arg_matrix, arg_labels, n_original>>]_vars
    /\ [](original_matrix # NoMatrix =>
            /\ distance_matrix = original_matrix
            /\ labels = arg_labels
            /\ current_labels = arg_labels
            /\ entry = "direct" => original_matrix = ToFloat64(arg_matrix))
    /\ [][(pc # "loop" /\ pc' = "loop") => current_matrix' = distance_matrix]_vars
    /\ [][IterateStep =>
            /\ n > 2
            /\ QMatrixObject(n) = "q_matrix"
            /\ AfterFindMinimum(current_matrix, n) = current_matrix
            /\ \A a \in DOMAIN current_matrix : current_matrix[a][a] # PosInf
            /\ current_matrix' = update_distance_matrix(current_matrix, sel'[1], sel'[2], n)
            /\ <<StoredVi, StoredVj>>
                  = calculate_branch_lengths(current_matrix, sel'[1], sel'[2], n)]_vars

C29_Witness ==
    /\ pc = "resolved"
    /\ runs = 1
    /\ n_original = 5
    /\ iterations = 2
    /\ Rows(current_matrix) = 3
    /\ Rows(distance_matrix) = 5
    /\ distance_matrix = ToFloat64(arg_matrix)
    /\ original_matrix = distance_matrix
    /\ labels = arg_labels

(***************************************************************************)
(* calculate_branch_lengths on float64 cells.  The Tree Builder model      *)
(* above keeps every cell a multiple of 1/Scale, where the operations of   *)
(* lines 142-143 are exact.  On other float64 cells each addition and      *)
(* subtraction rounds to the nearest representable value, ties to the      *)
(* even one.  A float64 value is held here as a record [c, f] that stands  *)
(* for c / F64Coarse + f * 2^-60: a coarse part and a fine part that is    *)
(* far smaller than one coarse unit, so that values compare first by c and *)
(* then by f.  The values in play have a coarse part of at most a few      *)
(* units and a fine part of a few units in the last place, which is where  *)
(* rounding decides.                                                       *)
(***************************************************************************)
MaxBranchN == 4

\* c-units per 1.0
F64Coarse == Pow2(6)

\* f-units in the gap between 1.0 and the next float64 above it (2^-52)
F64UlpOfOne == Pow2(8)

Fl(c, f) == [c |-> c, f |-> f]

FlZero == Fl(0, 0)

FlOne == Fl(F64Coarse, 0)

FlNeg(x) == Fl(0 - x.c, 0 - x.f)

FlIsNegative(x) == x.c < 0 \/ (x.c = 0 /\ x.f < 0)

FlLeq(x, y) == x.c < y.c \/ (x.c = y.c /\ x.f <= y.f)

\* The exact (unrounded) sum and difference of two values.
FlExactAdd(x, y) == Fl(x.c + y.c, x.f + y.f)

FlExactSub(x, y) == Fl(x.c - y.c, x.f - y.f)

\* The largest power of two that is at most c, for c >= 1.
RECURSIVE Pow2Below(_)
Pow2Below(c) == IF c < 2 THEN 1 ELSE 2 * Pow2Below(c \div 2)

\* The gap, in f-units, between neighbouring float64 values around a positive
\* value with coarse part c and fine part f: values in [2^e, 2^(e+1)) are
\* 2^(e-52) apart, and just below 2^e they are half as far apart.
F64Spacing(c, f) ==
    LET p == Pow2Below(c)
        s == (F64UlpOfOne * p) \div F64Coarse
    IN  IF f < 0 /\ p = c THEN s \div 2 ELSE s

\* Mutant of NearestEven: two bits of the significand are dropped.
NearestEven_Short(f, s) == (f \div (4 * s)) * (4 * s)

\* f rounded to the nearest multiple of s, a tie going to the even multiple.
NearestEven(f, s) ==
    LET m == f \div s
        r == f % s
    IN  IF 2 * r < s THEN m * s
        ELSE IF 2 * r > s THEN (m + 1) * s
        ELSE IF m % 2 = 0 THEN m * s ELSE (m + 1) * s

\* An exact result rounded to float64.  A value with coarse part 0 is a few
\* units of 2^-60 and is representable as it is.
RECURSIVE F64Round(_)
F64Round(x) ==
    IF x.c = 0 THEN x
    ELSE IF x.c < 0 THEN FlNeg(F64Round(FlNeg(x)))
    ELSE Fl(x.c, NearestEven(x.f, F64Spacing(x.c, x.f)))

\* float64 a + b and a - b
F64Add(x, y) == F64Round(FlExactAdd(x, y))

F64Sub(x, y) == F64Round(FlExactSub(x, y))

\* float64 x / m and 0.5 * x for m a power of two: exact, the values in play
\* being far from the subnormal range.
F64DivPow2(x, m) == Fl(x.c \div m, x.f \div m)

\* np.sum(row): for fewer than 8 cells the cells are added one by one.
RECURSIVE F64SumTo(_, _)
F64SumTo(row, last) ==
    IF last < 0 THEN FlZero ELSE F64Add(F64SumTo(row, last - 1), row[last])

\* max(0, v)
F64Max0(v) == IF FlIsNegative(v) THEN FlZero ELSE v

\* calculate_branch_lengths(dist_matrix, i, j, n) on float64 cells: the two
\* values it returns together with v_i as line 142 computed it.
calculate_branch_lengths_float64(dist_matrix, i, j, k) ==
    IF k <= 2
    THEN [v_i |-> F64DivPow2(dist_matrix[i][j], 2),
          v_j |-> F64DivPow2(dist_matrix[i][j], 2),
          raw |-> F64DivPow2(dist_matrix[i][j], 2)]
    ELSE LET d_ij  == dist_matrix[i][j]
             sum_i == F64SumTo(dist_matrix[i], Rows(dist_matrix) - 1)
             sum_j == F64SumTo(dist_matrix[j], Rows(dist_matrix) - 1)
             v_i   == F64Add(F64DivPow2(d_ij, 2),
                             F64DivPow2(F64Sub(sum_i, sum_j), 2 * (k - 2)))
             v_j   == F64Sub(d_ij, v_i)
         IN  [v_i |-> F64Max0(v_i), v_j |-> F64Max0(v_j), raw |-> v_i]

\* Cells of the matrices the function is applied to: 0, 1, the float64 next
\* above 1, 2 and 3.
BranchCells ==
    {FlZero, FlOne, Fl(F64Coarse, F64UlpOfOne), Fl(2 * F64Coarse, 0), Fl(3 * F64Coarse, 0)}

\* Matrix sizes for which the divisor 2 * (k - 2) of line 142 is a power of two.
BranchSizes == {k \in 3 .. MaxBranchN : Pow2Below(2 * (k - 2)) = 2 * (k - 2)}

\* A symmetric k x k matrix with a zero diagonal: d between rows 0 and 1,
\* a[m] and b[m] from rows 0 and 1 to every other row m, and 1 elsewhere.
BranchMatrix(k, d, a, b) ==
    [x \in Idx(k) |-> [y \in Idx(k) |->
        LET lo == IF x < y THEN x ELSE y
            hi == IF x < y THEN y ELSE x
        IN  IF x = y THEN FlZero
            ELSE IF lo = 0 /\ hi = 1 THEN d
            ELSE IF lo = 0 THEN a[hi]
            ELSE IF lo = 1 THEN b[hi]
            ELSE FlOne]]

BranchInputs ==
    UNION {{BranchMatrix(k, d, a, b) :
               <<d, a, b>> \in BranchCells \X [2 .. (k - 1) -> BranchCells]
                                           \X [2 .. (k - 1) -> BranchCells]} :
           k \in BranchSizes}

BranchInit ==
    /\ BuilderIdle
    /\ knn = NoCall
    /\ \E dist_matrix \in BranchInputs :
          branch_call = [pc |-> "start", dist_matrix |-> dist_matrix, i |-> 0, j |-> 1,
                         n |-> Rows(dist_matrix), v_i |-> FlZero, v_j |-> FlZero,
                         raw |-> FlZero]

\* v_i, v_j = self.calculate_branch_lengths(dist_matrix, i, j, n)
BranchApply ==
    /\ branch_call.pc = "start"
    /\ \E r \in {calculate_branch_lengths_float64(branch_call.dist_matrix, branch_call.i,
                                                  branch_call.j, branch_call.n)} :
          branch_call' = [branch_call EXCEPT !.pc = "done", !.v_i = r.v_i,
                                             !.v_j = r.v_j, !.raw = r.raw]
    /\ UNCHANGED <<builder_vars, knn>>

BranchSpec == BranchInit /\ [][BranchApply]_vars

\* D(i,j) of the call and the exact sum of the two lengths it returned.
BranchD == branch_call.dist_matrix[branch_call.i][branch_call.j]

BranchSum == FlExactAdd(branch_call.v_i, branch_call.v_j)

BranchUnclamped == FlLeq(FlZero, branch_call.raw) /\ FlLeq(branch_call.raw, BranchD)

(***************************************************************************)
(* C30 as stated.  For k > 2 and D(i,j) >= 0 the two lengths returned by   *)
(* calculate_branch_lengths satisfy v_i + v_j >= D(i,j), with equality     *)
(* exactly when the raw v_i lies in [0, D(i,j)].  On float64 cells this    *)
(* fails: v_j = D(i,j) - v_i is rounded, and can fall below the exact      *)
(* difference.                                                             *)
(***************************************************************************)
C30_SumAtLeastDistance ==
    (branch_call.pc = "done" /\ branch_call.n > 2 /\ FlLeq(FlZero, BranchD)) =>
        /\ FlLeq(BranchD, BranchSum)
        /\ (BranchSum = BranchD) <=> BranchUnclamped

(***************************************************************************)
(* C30, amended.  For k > 2 and D(i,j) >= 0, with r the raw v_i:           *)
(* if r < 0 then v_i = 0 and v_j >= D(i,j); if r > D(i,j) then v_j = 0 and *)
(* v_i = r > D(i,j); if 0 <= r <= D(i,j) then v_i = r and v_i + v_j        *)
(* differs from D(i,j) by at most half the gap between D(i,j) and its      *)
(* neighbouring float64 values, and is equal to D(i,j) when r >= D(i,j)/2. *)
(***************************************************************************)
C30_SumUpToRounding ==
    (branch_call.pc = "done" /\ branch_call.n > 2 /\ FlLeq(FlZero, BranchD)) =>
        /\ FlIsNegative(branch_call.raw) =>
              /\ branch_call.v_i = FlZero
              /\ FlLeq(BranchD, branch_call.v_j)
        /\ ~FlLeq(branch_call.raw, BranchD) =>
              /\ branch_call.v_j = FlZero
              /\ branch_call.v_i = branch_call.raw
        /\ BranchUnclamped =>
              /\ branch_call.v_i = branch_call.raw
              /\ BranchSum.c = BranchD.c
              /\ BranchD.c > 0 =>
                    /\ 2 * (BranchSum.f - BranchD.f) <= F64Spacing(BranchD.c, BranchD.f)
                    /\ 2 * (BranchD.f - BranchSum.f) <= F64Spacing(BranchD.c, BranchD.f)
              /\ BranchD.c = 0 => BranchSum = BranchD
              /\ FlLeq(BranchD, FlExactAdd(branch_call.raw, branch_call.raw)) =>
                    BranchSum = BranchD

\* An unclamped call whose two lengths add up to less than D(i,j), on a
\* 4 x 4 matrix that satisfies the triangle inequality.
C30_Witness ==
    /\ branch_call.pc = "done"
    /\ branch_call.n = 4
    /\ BranchD = Fl(F64Coarse, F64UlpOfOne)
    /\ \A m \in 2 .. 3 : /\ branch_call.dist_matrix[0][m] = FlOne
                         /\ branch_call.dist_matrix[1][m] = Fl(2 * F64Coarse, 0)
    /\ BranchUnclamped
    /\ branch_call.v_i = branch_call.raw
    /\ branch_call.v_j = FlOne
    /\ ~FlLeq(BranchD, BranchSum)

====
